---- MODULE Spec2Model ----
(***************************************************************************)
(* A model of go-urlpattern: the tokenizer, the pattern parser, the        *)
(* part-list code generators, the constructor-string parser, URLPattern    *)
(* construction and the match procedure.                                   *)
(*                                                                         *)
(* Strings are sequences of code points; a code point is a one-character   *)
(* string ("a", "/", ...).  The code point U+0000 is written NUL and one   *)
(* non-ASCII letter is written "eacute".  Indices into strings are 0-based *)
(* as in the Go code; At(s, i) is s.At(i) and Slice(s, i, j) is s.Slice(i,j). *)
(***************************************************************************)
EXTENDS Integers, Sequences, FiniteSets, TLC

VARIABLES phase, ctorArgs, urlPattern, newError, execArgs, matchArgs, outcome

vars == <<phase, ctorArgs, urlPattern, newError, execArgs, matchArgs, outcome>>

\* A local variable: Let(e, LAMBDA v : body) is body with v bound to the
\* value of e, as "v := e" followed by body in the Go code.
Let(e, Body(_)) == Body(e)

\* ------------------------------------------------------------------------
\* Strings
\* ------------------------------------------------------------------------

NUL == "NUL"

At(s, i) == s[i + 1]

Slice(s, i, j) == SubSeq(s, i + 1, j)

\* the concatenation of ss[lo], ..., ss[hi]
RECURSIVE ConcatRange(_, _, _)
ConcatRange(ss, lo, hi) ==
    CASE lo > hi -> <<>>
      [] lo = hi -> ss[lo]
      [] OTHER -> ConcatRange(ss, lo, (lo + hi) \div 2)
                  \o ConcatRange(ss, (lo + hi) \div 2 + 1, hi)

Concat(ss) == ConcatRange(ss, 1, Len(ss))

HasPrefix(s, p) == Len(s) >= Len(p) /\ SubSeq(s, 1, Len(p)) = p

\* strings.TrimPrefix / strings.TrimSuffix with a one code point argument
TrimPrefix(s, c) == IF s # <<>> /\ s[1] = c THEN Tail(s) ELSE s

TrimSuffix(s, c) == IF s # <<>> /\ s[Len(s)] = c THEN SubSeq(s, 1, Len(s) - 1) ELSE s

\* strings.LastIndex(s, c), -1 when c does not occur
LastIndex(s, c) ==
    LET I == {i \in 1..Len(s) : s[i] = c}
    IN  IF I = {} THEN 0 - 1 ELSE (CHOOSE i \in I : \A j \in I : j <= i) - 1

\* ------------------------------------------------------------------------
\* Code point classes (package unicode, restricted to the model's alphabet)
\* ------------------------------------------------------------------------

LowerLetters == {"a", "b", "c", "d", "e", "f", "h", "l", "m", "n", "o", "p",
                 "r", "s", "t", "w", "x", "eacute"}

UpperLetters == {"A", "B", "C", "D", "E", "F", "P"}

Letters == LowerLetters \cup UpperLetters

Digits == {"0", "1", "2", "3", "4", "5", "6", "7", "8", "9"}

NonASCII == {"eacute"}

isASCII(c) == c \notin NonASCII

IsDigit(c) == c \in Digits

\* isIdentifierStart accepting no code point: no ':' begins a name
isIdentifierStartNever(c) == FALSE

isIdentifierStart(c) == c \in Letters

isIdentifierPart(c) == c \in Letters \cup Digits \cup {"_"}

isValidNameCodePoint(c, first) ==
    IF first THEN isIdentifierStart(c) ELSE isIdentifierPart(c)

ToLower(c) ==
    CASE c = "A" -> "a" [] c = "B" -> "b" [] c = "C" -> "c" [] c = "D" -> "d"
      [] c = "E" -> "e" [] c = "F" -> "f" [] c = "P" -> "p" [] OTHER -> c

MapLower(s) == Concat([i \in 1..Len(s) |-> <<ToLower(s[i])>>])

\* ------------------------------------------------------------------------
\* Escaping
\* ------------------------------------------------------------------------

specialRegexpBytes ==
    {"\\", ".", "+", "*", "?", "(", ")", "|", "[", "]", "{", "}", "^", "$", "/"}

specialPatternBytes == {"\\", "+", "*", "?", "(", ")", "{", "}", ":"}

specialRegexp(b) == b \in specialRegexpBytes

specialPattern(b) == b \in specialPatternBytes

\* an escapeRegexpString that escapes nothing
escapeRegexpStringUnquoted(s) == s

\* what the loop over the bytes of s writes to the result, byte by byte
escapeRegexpString(s) ==
    Concat([i \in 1..Len(s) |-> IF specialRegexp(s[i]) THEN <<"\\", s[i]>> ELSE <<s[i]>>])

escapePatternString(s) ==
    Concat([i \in 1..Len(s) |-> IF specialPattern(s[i]) THEN <<"\\", s[i]>> ELSE <<s[i]>>])

\* ------------------------------------------------------------------------
\* Tokenizer
\* ------------------------------------------------------------------------

tokenizePolicyLenient == FALSE

tokenizePolicyStrict == TRUE

Token(t, i, v) == [tType |-> t, index |-> i, value |-> v]

\* The outcome of a call that returns (value, error).  err is "" for a nil
\* error; "hang" stands for a call that never returns.
Ok(v) == [err |-> "", val |-> v]

Fail(e) == [err |-> e, val |-> <<>>]

\* The scan of the name after ':' (the for loop): the position after the
\* last valid name code point.
RECURSIVE scanName(_, _, _)
scanName(input, namePosition, nameStart) ==
    IF namePosition < Len(input)
       /\ isValidNameCodePoint(At(input, namePosition), namePosition = nameStart)
    THEN scanName(input, namePosition + 1, nameStart)
    ELSE namePosition

\* The scan of a regexp group (the loop labelled Loop): error is TRUE when
\* a tokenizing error was processed inside the loop.
RECURSIVE scanRegexp(_, _, _, _)
scanRegexp(input, regexpPosition, regexpStart, depth) ==
    LET len == Len(input)
        c == At(input, regexpPosition)
        bad == [error |-> TRUE, depth |-> depth, regexpPosition |-> regexpPosition]
    IN  CASE ~(regexpPosition < len) ->
               [error |-> FALSE, depth |-> depth, regexpPosition |-> regexpPosition]
          [] ~isASCII(c) \/ (regexpPosition = regexpStart /\ c = "?") -> bad
          [] c = "\\" /\ regexpPosition = len - 1 -> bad
          [] c = "\\" /\ ~isASCII(At(input, regexpPosition + 1)) -> bad
          [] c = "\\" -> scanRegexp(input, regexpPosition + 2, regexpStart, depth)
          [] c = ")" /\ depth - 1 = 0 ->
               [error |-> FALSE, depth |-> 0, regexpPosition |-> regexpPosition + 1]
          [] c = ")" -> scanRegexp(input, regexpPosition + 1, regexpStart, depth - 1)
          [] c = "(" /\ regexpPosition = len - 1 -> bad
          [] c = "(" /\ At(input, regexpPosition + 1) # "?" -> bad
          [] c = "(" -> scanRegexp(input, regexpPosition + 1, regexpStart, depth + 1)
          [] OTHER -> scanRegexp(input, regexpPosition + 1, regexpStart, depth)

\* One iteration of the for loop of tokenize at t.index = index.  The
\* result says how the iteration ends: "next" (go on at index with token
\* list tl), "return" (tokenize returns tl, err) or "hang" (the iteration
\* changes nothing and the loop repeats for ever).
tokenizeStep(input, policy, index, tl) ==
    LET len == Len(input)
        c == At(input, index)
        nextIndex == index + 1
        add(t, nextPosition, valuePosition) ==
            [kind |-> "next", index |-> nextPosition, err |-> "",
             tl |-> Append(tl, Token(t, index, Slice(input, valuePosition, nextPosition)))]
        \* processTokenizingError followed by "if err != nil return; continue"
        tokErr(nextPosition, valuePosition) ==
            IF policy = tokenizePolicyStrict
            THEN [kind |-> "return", index |-> index, err |-> "TypeError", tl |-> <<>>]
            ELSE add("InvalidChar", nextPosition, valuePosition)
    IN  CASE c = "*" -> add("Asterisk", nextIndex, index)
          [] c = "+" -> add("OtherModifier", nextIndex, index)
          [] c = "?" -> add("OtherModifier", nextIndex, index)
          [] c = "\\" ->
               IF index = len - 1
               THEN \* "if err := processTokenizingError(...); err == nil { return nil, err }"
                    IF policy = tokenizePolicyStrict
                    THEN [kind |-> "hang", index |-> index, err |-> "", tl |-> tl]
                    ELSE [kind |-> "return", index |-> nextIndex, err |-> "", tl |-> <<>>]
               ELSE add("EscapedChar", index + 2, nextIndex)
          [] c = "{" -> add("Open", nextIndex, index)
          [] c = "}" -> add("Close", nextIndex, index)
          [] c = ":" ->
               LET nameStart == nextIndex
                   namePosition == scanName(input, nameStart, nameStart)
               IN  IF namePosition <= nameStart
                   THEN tokErr(nameStart, index)
                   ELSE add("Name", namePosition, nameStart)
          [] c = "(" ->
               LET regexpStart == nextIndex
                   r == scanRegexp(input, regexpStart, regexpStart, 1)
                   regexpLength == r.regexpPosition - regexpStart - 1
               IN  IF r.error THEN tokErr(regexpStart, index)
                   ELSE IF r.depth # 0 THEN tokErr(regexpStart, index)
                   ELSE IF regexpLength = 0 THEN tokErr(regexpStart, index)
                   ELSE [kind |-> "next", index |-> r.regexpPosition, err |-> "",
                         tl |-> Append(tl, Token("Regexp", index,
                                  Slice(input, regexpStart, regexpStart + regexpLength)))]
          [] OTHER -> add("Char", nextIndex, index)

\* The next iteration of the loop after the iteration that ended as st,
\* if there is one: none after a return, in a loop that repeats for ever,
\* or at the end of the input.
tokenizeNext(input, policy, st) ==
    IF st.kind # "next" \/ ~(st.index < Len(input)) THEN st
    ELSE tokenizeStep(input, policy, st.index, st.tl)

\* The for loop of tokenize after the iteration that ended as st, then the
\* End token
RECURSIVE tokenizeLoop(_, _, _)
tokenizeLoop(input, policy, st) ==
    CASE st.kind = "return" -> [err |-> st.err, val |-> st.tl]
      [] st.kind = "hang" -> Fail("hang")
      [] ~(st.index < Len(input)) -> Ok(Append(st.tl, Token("End", st.index, <<>>)))
      [] OTHER ->
           tokenizeLoop(input, policy,
               tokenizeNext(input, policy, tokenizeNext(input, policy,
               tokenizeNext(input, policy, tokenizeNext(input, policy, st)))))

tokenize(input, policy) ==
    tokenizeLoop(input, policy, [kind |-> "next", index |-> 0, err |-> "", tl |-> <<>>])

\* ------------------------------------------------------------------------
\* Optional values (Go pointers that may be nil)
\* ------------------------------------------------------------------------

None == <<>>

Some(x) == <<x>>

IsNil(o) == o = <<>>

Get(o) == o[1]

\* ------------------------------------------------------------------------
\* The external URL parser and percent-encoder (github.com/dunglas/whatwg-url)
\* as far as the canonicalizers use it.  BADCP stands for a code point on
\* which the parser call returns an error in every state.
\* ------------------------------------------------------------------------

BADCP == "BADCP"

HexDigits == Digits \cup {"a", "b", "c", "d", "e", "f", "A", "B", "C", "D", "E", "F"}

PercentCode(c) ==
    CASE c = " " -> <<"%", "2", "0">>
      [] c = "#" -> <<"%", "2", "3">>
      [] c = "/" -> <<"%", "2", "F">>
      [] c = ":" -> <<"%", "3", "A">>
      [] c = "<" -> <<"%", "3", "C">>
      [] c = ">" -> <<"%", "3", "E">>
      [] c = "?" -> <<"%", "3", "F">>
      [] c = "@" -> <<"%", "4", "0">>
      [] c = "[" -> <<"%", "5", "B">>
      [] c = "\\" -> <<"%", "5", "C">>
      [] c = "]" -> <<"%", "5", "D">>
      [] c = "^" -> <<"%", "5", "E">>
      [] c = "{" -> <<"%", "7", "B">>
      [] c = "|" -> <<"%", "7", "C">>
      [] c = "}" -> <<"%", "7", "D">>
      [] c = "eacute" -> <<"%", "C", "3", "%", "A", "9">>
      [] OTHER -> <<c>>

\* a percent-encoding that also encodes '%', so that encoding twice is
\* not encoding once
PercentEncodeStringAgain(s, set) ==
    Concat([i \in 1..Len(s) |->
               IF s[i] = "%" THEN <<"%", "2", "5">>
               ELSE IF s[i] \in set THEN PercentCode(s[i]) ELSE <<s[i]>>])

PercentEncodeString(s, set) ==
    Concat([i \in 1..Len(s) |-> IF s[i] \in set THEN PercentCode(s[i]) ELSE <<s[i]>>])

C0ControlPercentEncodeSet == NonASCII

FragmentPercentEncodeSet == C0ControlPercentEncodeSet \cup {" ", "<", ">"}

QueryPercentEncodeSet == C0ControlPercentEncodeSet \cup {" ", "#", "<", ">"}

PathPercentEncodeSet == QueryPercentEncodeSet \cup {"?", "{", "}", "^"}

UserInfoPercentEncodeSet ==
    PathPercentEncodeSet \cup {"/", ":", "@", "[", "\\", "]", "|"}

ForbiddenHostCodePoints ==
    {NUL, " ", "#", "/", ":", "<", ">", "?", "@", "[", "\\", "]", "^", "|"}

ForbiddenDomainCodePoints == ForbiddenHostCodePoints \cup {"%"}

Chars(s) == {s[i] : i \in 1..Len(s)}

ParserRejects(s) == BADCP \in Chars(s)

RECURSIVE DecimalValue(_)
DecimalValue(s) ==
    IF s = <<>> THEN 0
    ELSE LET d == s[Len(s)]
             v == CASE d = "0" -> 0 [] d = "1" -> 1 [] d = "2" -> 2 [] d = "3" -> 3
                    [] d = "4" -> 4 [] d = "5" -> 5 [] d = "6" -> 6 [] d = "7" -> 7
                    [] d = "8" -> 8 [] OTHER -> 9
         IN  10 * DecimalValue(SubSeq(s, 1, Len(s) - 1)) + v

DigitOf(n) ==
    CASE n = 0 -> "0" [] n = 1 -> "1" [] n = 2 -> "2" [] n = 3 -> "3" [] n = 4 -> "4"
      [] n = 5 -> "5" [] n = 6 -> "6" [] n = 7 -> "7" [] n = 8 -> "8" [] OTHER -> "9"

\* strconv.FormatFloat(n, 'f', -1, 64) of a non-negative integer value
RECURSIVE FormatFloat(_)
FormatFloat(n) ==
    IF n < 10 THEN <<DigitOf(n)>> ELSE FormatFloat(n \div 10) \o <<DigitOf(n % 10)>>

\* url scheme syntax: an ASCII letter, then letters, digits, '+', '-', '.'
IsScheme(s) ==
    /\ s # <<>>
    /\ s[1] \in Letters \ NonASCII
    /\ \A i \in 1..Len(s) : s[i] \in (Letters \ NonASCII) \cup Digits \cup {"+", "-", "."}

\* ------------------------------------------------------------------------
\* Special schemes and default ports
\* ------------------------------------------------------------------------

sFtp == <<"f", "t", "p">>

sHttp == <<"h", "t", "t", "p">>

sHttps == <<"h", "t", "t", "p", "s">>

sWs == <<"w", "s">>

sWss == <<"w", "s", "s">>

specialSchemeList == <<sFtp, sHttp, sHttps, sWs, sWss>>

IsSpecialScheme(s) == \E i \in 1..Len(specialSchemeList) : specialSchemeList[i] = s

\* DefaultPorts[s]; the zero value "" for a key that is not in the map
DefaultPorts(s) ==
    CASE s = sHttp -> <<"8", "0">>
      [] s = sHttps -> <<"4", "4", "3">>
      [] s = sWs -> <<"8", "0">>
      [] s = sWss -> <<"4", "4", "3">>
      [] s = sFtp -> <<"2", "1">>
      [] OTHER -> <<>>

\* ------------------------------------------------------------------------
\* Canonicalizers (the encoding callbacks)
\* ------------------------------------------------------------------------

canonicalizeProtocol(value) ==
    IF value = <<>> THEN Ok(value)
    ELSE LET i == CHOOSE k \in 1..(Len(value) + 1) :
                      /\ k = Len(value) + 1 \/ value[k] = ":"
                      /\ \A j \in 1..(k - 1) : value[j] # ":"
             scheme == SubSeq(value, 1, i - 1)
         IN  IF ParserRejects(value) \/ ~IsScheme(scheme)
             THEN Fail("url parse error")
             ELSE Ok(MapLower(scheme))

canonicalizeUsername(value) ==
    IF value = <<>> THEN Ok(value)
    ELSE Ok(PercentEncodeString(value, UserInfoPercentEncodeSet))

canonicalizePassword(value) ==
    IF value = <<>> THEN Ok(value)
    ELSE Ok(PercentEncodeString(value, UserInfoPercentEncodeSet))

\* The host parser on "[...]": an IPv6 address in brackets
IsIPv6Literal(s) ==
    /\ Len(s) >= 4
    /\ s[1] = "[" /\ s[Len(s)] = "]"
    /\ \A i \in 2..(Len(s) - 1) : s[i] \in HexDigits \cup {":"}
    /\ \E i \in 2..(Len(s) - 1) : s[i] = ":"

canonicalizeHostname(hostnameValue, protocolValue) ==
    IF hostnameValue = <<>> THEN Ok(hostnameValue)
    ELSE IF hostnameValue[1] # "["
            /\ Chars(hostnameValue) \cap {"/", "?", "#", ":", "\\"} # {}
    THEN Fail("invalid hostname")
    ELSE IF protocolValue # <<>> /\ (ParserRejects(protocolValue) \/ ~IsScheme(protocolValue))
    THEN Fail("url parse error")
    ELSE IF ParserRejects(hostnameValue)
    THEN Fail("url parse error")
    ELSE IF hostnameValue[1] = "["
    THEN IF IsIPv6Literal(hostnameValue) THEN Ok(MapLower(hostnameValue))
         ELSE Fail("url parse error")
    ELSE IF IsSpecialScheme(MapLower(protocolValue))
    THEN IF Chars(hostnameValue) \cap (ForbiddenDomainCodePoints \cup NonASCII) # {}
         THEN Fail("url parse error")
         ELSE Ok(MapLower(hostnameValue))
    ELSE IF Chars(hostnameValue) \cap ForbiddenHostCodePoints # {}
         THEN Fail("url parse error")
         ELSE Ok(PercentEncodeString(hostnameValue, C0ControlPercentEncodeSet))

canonicalizeDomainName(value) == canonicalizeHostname(value, sHttps)

\* u.Port() after the basic parser ran in the port state on portValue:
\* the leading digits, as a number; "" if there are none or if the
\* number is the default port of the scheme
PortAfterParse(portValue, protocolValue) ==
    LET n == CHOOSE k \in 0..Len(portValue) :
                 /\ \A j \in 1..k : portValue[j] \in Digits
                 /\ k = Len(portValue) \/ portValue[k + 1] \notin Digits
        digits == SubSeq(portValue, 1, n)
        p == FormatFloat(DecimalValue(digits))
    IN  IF n = 0 THEN <<>>
        ELSE IF p = DefaultPorts(MapLower(protocolValue)) THEN <<>>
        ELSE p

canonicalizePort(portValue, protocolValue) ==
    IF portValue = <<>> THEN Ok(portValue)
    ELSE IF protocolValue # <<>> /\ (ParserRejects(protocolValue) \/ ~IsScheme(protocolValue))
    THEN Fail("url parse error")
    ELSE LET n == CHOOSE k \in 0..Len(portValue) :
                      /\ \A j \in 1..k : portValue[j] \in Digits
                      /\ k = Len(portValue) \/ portValue[k + 1] \notin Digits
         IN  IF ParserRejects(portValue) \/ DecimalValue(SubSeq(portValue, 1, n)) > 65535
             THEN Fail("url parse error")
             ELSE LET p == PortAfterParse(portValue, protocolValue)
                  IN  IF p # portValue
                      THEN IF DefaultPorts(protocolValue) # <<>>
                              /\ portValue = DefaultPorts(protocolValue)
                           THEN Ok(p)
                           ELSE Fail("InvalidPortError")
                      ELSE Ok(p)

canonicalizePathname(value) ==
    IF value = <<>> THEN Ok(value)
    ELSE LET leadingSlash == value[1] = "/"
             modifiedValue == IF leadingSlash THEN value ELSE <<"/", "-">> \o value
         IN  IF ParserRejects(modifiedValue) THEN Fail("url parse error")
             ELSE LET result == PercentEncodeString(modifiedValue, PathPercentEncodeSet)
                  IN  Ok(IF leadingSlash THEN result ELSE SubSeq(result, 3, Len(result)))

canonicalizeOpaquePathname(value) ==
    IF value = <<>> THEN Ok(value)
    ELSE IF ParserRejects(value) THEN Fail("url parse error")
    ELSE Ok(PercentEncodeString(value, C0ControlPercentEncodeSet))

canonicalizeSearch(value) ==
    IF value = <<>> THEN Ok(value)
    ELSE IF ParserRejects(value) THEN Fail("url parse error")
    ELSE Ok(PercentEncodeString(value, QueryPercentEncodeSet))

\* on a parser error the code returns "", nil
canonicalizeHash(value) ==
    IF value = <<>> THEN Ok(value)
    ELSE IF ParserRejects(value) THEN Ok(<<>>)
    ELSE Ok(PercentEncodeString(value, FragmentPercentEncodeSet))

canonicalizeIPv6Hostname(value) ==
    IF \E i \in 1..Len(value) : value[i] \notin {"[", "]", ":"} \cup HexDigits
    THEN Fail("InvalidIPv6HostnameError")
    ELSE Ok(MapLower(value))

\* The encoding callbacks URLPatternInit.New passes to compileComponent,
\* by name; "identity" is the callback func(s string) (string, error)
\* { return s, nil } of a caller of parsePatternString.
encodingCallback(cb, s) ==
    CASE cb = "identity" -> Ok(s)
      [] cb = "canonicalizeProtocol" -> canonicalizeProtocol(s)
      [] cb = "canonicalizeUsername" -> canonicalizeUsername(s)
      [] cb = "canonicalizePassword" -> canonicalizePassword(s)
      [] cb = "canonicalizeIPv6Hostname" -> canonicalizeIPv6Hostname(s)
      [] cb = "canonicalizeDomainName" -> canonicalizeDomainName(s)
      [] cb = "canonicalizeHostname" -> canonicalizeHostname(s, <<>>)
      [] cb = "canonicalizePort" -> canonicalizePort(s, <<>>)
      [] cb = "canonicalizePathname" -> canonicalizePathname(s)
      [] cb = "canonicalizeOpaquePathname" -> canonicalizeOpaquePathname(s)
      [] cb = "canonicalizeSearch" -> canonicalizeSearch(s)
      [] OTHER -> canonicalizeHash(s)


\* ------------------------------------------------------------------------
\* Options and parts
\* ------------------------------------------------------------------------

Options(d, p, i) == [delimiterCodePoint |-> d, prefixCodePoint |-> p, ignoreCase |-> i]

fullWildcardRegexpValue == <<".", "*">>

generateSegmentWildcardRegexp(options) ==
    <<"[", "^">> \o escapeRegexpString(<<options.delimiterCodePoint>>) \o <<"]", "+", "?">>

Part(t, v, m, n, pre, suf) ==
    [pType |-> t, value |-> v, modifier |-> m, name |-> n, prefix |-> pre, suffix |-> suf]

\* ------------------------------------------------------------------------
\* Pattern parser.  The parser state p is the patternParser struct; a step
\* returns [err, p] or [err, p, tok] with tok an optional token.
\* ------------------------------------------------------------------------

newPatternParser(tl, cb, options) ==
    [tokenList |-> tl, encodingCallback |-> cb,
     segmentWildcardRegexp |-> generateSegmentWildcardRegexp(options),
     partList |-> <<>>, pendingFixedValue |-> <<>>, index |-> 0, nextNumericName |-> 0]

PR(e, p, tok) == [err |-> e, p |-> p, tok |-> tok]

tryConsumeToken(p, tokenType) ==
    IF p.index >= Len(p.tokenList)
    THEN PR("BadParserIndexError", p, None)
    ELSE LET nextToken == p.tokenList[p.index + 1]
         IN  IF nextToken.tType # tokenType
             THEN PR("", p, None)
             ELSE PR("", [p EXCEPT !.index = p.index + 1], Some(nextToken))

tryConsumeRegexpOrWildcardToken(p, nameToken) ==
    Let(tryConsumeToken(p, "Regexp"), LAMBDA r :
    IF r.err # "" THEN r
    ELSE IF IsNil(nameToken) /\ IsNil(r.tok)
    THEN tryConsumeToken(r.p, "Asterisk")
    ELSE r)

maybeAddPartFromPendingFixedValue(p) ==
    IF p.pendingFixedValue = <<>> THEN PR("", p, None)
    ELSE Let(encodingCallback(p.encodingCallback, p.pendingFixedValue), LAMBDA e :
         IF e.err # "" THEN PR(e.err, p, None)
         ELSE PR("", [p EXCEPT !.pendingFixedValue = <<>>,
                               !.partList = Append(p.partList,
                                   Part("FixedText", e.val, "None", <<>>, <<>>, <<>>))],
                 None))

tryConsumeModifierToken(p) ==
    Let(tryConsumeToken(p, "OtherModifier"), LAMBDA r :
    IF r.err # "" THEN r
    ELSE IF ~IsNil(r.tok) THEN r
    ELSE tryConsumeToken(r.p, "Asterisk"))

\* isDuplicateName without the comparison with the earlier parts
isDuplicateNameNever(p, name) == FALSE

isDuplicateName(p, name) ==
    \E i \in 1..Len(p.partList) : p.partList[i].name = name

modifierOfToken(modifierToken) ==
    IF IsNil(modifierToken) THEN "None"
    ELSE CASE Get(modifierToken).value = <<"?">> -> "Optional"
           [] Get(modifierToken).value = <<"*">> -> "ZeroOrMore"
           [] Get(modifierToken).value = <<"+">> -> "OneOrMore"
           [] OTHER -> "None"

\* addPart, steps 5 to 7: a "{...}" group without a matching group
addFixedTextPart(q, prefix, suffix, modifier) ==
    IF suffix # <<>> THEN PR("NonEmptySuffixError", q, None)
    ELSE IF prefix = <<>> THEN PR("", q, None)
    ELSE Let(encodingCallback(q.encodingCallback, prefix), LAMBDA e :
         IF e.err # "" THEN PR(e.err, q, None)
         ELSE PR("", [q EXCEPT !.partList = Append(q.partList,
                         Part("FixedText", e.val, modifier, <<>>, <<>>, <<>>))],
                 None))

\* addPart, steps 8 to 18: a part with a matching group
addGroupPart(q, prefix, nameToken, regexpOrWildcardToken, suffix, modifier) ==
    Let(IF IsNil(regexpOrWildcardToken) THEN q.segmentWildcardRegexp
        ELSE IF Get(regexpOrWildcardToken).tType = "Asterisk"
        THEN fullWildcardRegexpValue
        ELSE Get(regexpOrWildcardToken).value, LAMBDA regexpValue0 :
    Let(CASE regexpValue0 = q.segmentWildcardRegexp -> "SegmentWildcard"
          [] regexpValue0 = fullWildcardRegexpValue -> "FullWildcard"
          [] OTHER -> "Regexp", LAMBDA pType :
    Let(IF ~IsNil(nameToken) THEN Get(nameToken).value
        ELSE IF ~IsNil(regexpOrWildcardToken)
        THEN FormatFloat(q.nextNumericName)
        ELSE <<>>, LAMBDA name :
    Let(IF IsNil(nameToken) /\ ~IsNil(regexpOrWildcardToken)
        THEN [q EXCEPT !.nextNumericName = q.nextNumericName + 1]
        ELSE q, LAMBDA q2 :
    IF isDuplicateName(q2, name) THEN PR("DuplicatePartNameError", q2, None)
    ELSE
    Let(encodingCallback(q2.encodingCallback, prefix), LAMBDA ep :
    IF ep.err # "" THEN PR(ep.err, q2, None)
    ELSE
    Let(encodingCallback(q2.encodingCallback, suffix), LAMBDA es :
    IF es.err # "" THEN PR(es.err, q2, None)
    ELSE PR("", [q2 EXCEPT !.partList = Append(q2.partList,
                    Part(pType, IF pType = "Regexp" THEN regexpValue0 ELSE <<>>,
                         modifier, name, ep.val, es.val))],
            None)))))))

\* addPart after the pending fixed value was flushed (m is the result)
addPartAfterPending(m, prefix, nameToken, regexpOrWildcardToken, suffix, modifier) ==
    IF m.err # "" THEN m
    ELSE IF IsNil(nameToken) /\ IsNil(regexpOrWildcardToken)
    THEN addFixedTextPart(m.p, prefix, suffix, modifier)
    ELSE addGroupPart(m.p, prefix, nameToken, regexpOrWildcardToken, suffix, modifier)

addPart(p, prefix, nameToken, regexpOrWildcardToken, suffix, modifierToken) ==
    IF IsNil(nameToken) /\ IsNil(regexpOrWildcardToken)
       /\ modifierOfToken(modifierToken) = "None"
    THEN PR("", [p EXCEPT !.pendingFixedValue = p.pendingFixedValue \o prefix], None)
    ELSE addPartAfterPending(maybeAddPartFromPendingFixedValue(p), prefix, nameToken,
                             regexpOrWildcardToken, suffix, modifierOfToken(modifierToken))

\* consumeText: tok carries the text as an optional string
RECURSIVE consumeText(_, _)
consumeText(p, result) ==
    Let(tryConsumeToken(p, "Char"), LAMBDA c :
    IF c.err # "" THEN c
    ELSE IF ~IsNil(c.tok) THEN consumeText(c.p, result \o Get(c.tok).value)
    ELSE
    Let(tryConsumeToken(c.p, "EscapedChar"), LAMBDA e :
    IF e.err # "" THEN e
    ELSE IF ~IsNil(e.tok) THEN consumeText(e.p, result \o Get(e.tok).value)
    ELSE PR("", e.p, Some(result))))

consumeRequiredToken(p, tokenType) ==
    Let(tryConsumeToken(p, tokenType), LAMBDA r :
    IF r.err # "" THEN r
    ELSE IF IsNil(r.tok) THEN PR("RequiredTokenError", r.p, None)
    ELSE r)

\* The end of both group forms: modifierToken is consumed (md is the
\* result), then the part is added.
addPartWithModifier(md, prefix, nameToken, regexpOrWildcardToken, suffix) ==
    IF md.err # "" THEN md
    ELSE addPart(md.p, prefix, nameToken, regexpOrWildcardToken, suffix, md.tok)

\* The "{ ... }" group of an iteration, one operator per statement; the
\* first parameter is the result of the statement before.
groupAfterClose(cl, prefix, nameToken, regexpOrWildcardToken, suffix) ==
    IF cl.err # "" THEN cl
    ELSE addPartWithModifier(tryConsumeModifierToken(cl.p), prefix, nameToken,
                             regexpOrWildcardToken, suffix)

groupAfterSuffix(suf, prefix, nameToken, regexpOrWildcardToken) ==
    IF suf.err # "" THEN suf
    ELSE groupAfterClose(consumeRequiredToken(suf.p, "Close"), prefix, nameToken,
                         regexpOrWildcardToken, Get(suf.tok))

groupAfterRegexp(rw, prefix, nameToken) ==
    IF rw.err # "" THEN rw
    ELSE groupAfterSuffix(consumeText(rw.p, <<>>), prefix, nameToken, rw.tok)

groupAfterName(nm, prefix) ==
    IF nm.err # "" THEN nm
    ELSE groupAfterRegexp(tryConsumeRegexpOrWildcardToken(nm.p, nm.tok), prefix, nm.tok)

groupAfterPrefix(pre) ==
    IF pre.err # "" THEN pre
    ELSE groupAfterName(tryConsumeToken(pre.p, "Name"), Get(pre.tok))

parseGroup(p) == groupAfterPrefix(consumeText(p, <<>>))

\* An iteration that found a name, regexp or wildcard token
matchingGroupAfterPending(m, prefix, nameToken, regexpOrWildcardToken) ==
    IF m.err # "" THEN m
    ELSE addPartWithModifier(tryConsumeModifierToken(m.p), prefix, nameToken,
                             regexpOrWildcardToken, <<>>)

parseMatchingGroup(p, options, charToken, nameToken, regexpOrWildcardToken) ==
    LET prefix == IF IsNil(charToken) THEN <<>> ELSE Get(charToken).value
    IN  IF prefix # <<>> /\ prefix # <<options.prefixCodePoint>>
        THEN matchingGroupAfterPending(
                 maybeAddPartFromPendingFixedValue(
                     [p EXCEPT !.pendingFixedValue = p.pendingFixedValue \o prefix]),
                 <<>>, nameToken, regexpOrWildcardToken)
        ELSE matchingGroupAfterPending(maybeAddPartFromPendingFixedValue(p),
                                       prefix, nameToken, regexpOrWildcardToken)

\* The end of the token list: the pending fixed value is flushed (m is the
\* result) and the End token is required.
endOfPattern(m) ==
    IF m.err # "" THEN m ELSE consumeRequiredToken(m.p, "End")

iterationAfterOpen(op) ==
    IF op.err # "" THEN op
    ELSE IF ~IsNil(op.tok) THEN parseGroup(op.p)
    ELSE endOfPattern(maybeAddPartFromPendingFixedValue(op.p))

iterationAfterFixed(fx) ==
    IF fx.err # "" THEN fx
    ELSE IF ~IsNil(fx.tok)
    THEN PR("", [fx.p EXCEPT !.pendingFixedValue =
                                 fx.p.pendingFixedValue \o Get(fx.tok).value], None)
    ELSE iterationAfterOpen(tryConsumeToken(fx.p, "Open"))

iterationAfterRegexp(rw, options, charToken, nameToken) ==
    IF rw.err # "" THEN rw
    ELSE IF ~IsNil(nameToken) \/ ~IsNil(rw.tok)
    THEN parseMatchingGroup(rw.p, options, charToken, nameToken, rw.tok)
    ELSE IF ~IsNil(charToken) THEN iterationAfterFixed(PR("", rw.p, charToken))
    ELSE iterationAfterFixed(tryConsumeToken(rw.p, "EscapedChar"))

iterationAfterName(nm, options, charToken) ==
    IF nm.err # "" THEN nm
    ELSE iterationAfterRegexp(tryConsumeRegexpOrWildcardToken(nm.p, nm.tok),
                              options, charToken, nm.tok)

iterationAfterChar(ch, options) ==
    IF ch.err # "" THEN ch
    ELSE iterationAfterName(tryConsumeToken(ch.p, "Name"), options, ch.tok)

\* One iteration of the for loop of parsePatternString
parseIteration(p, options) == iterationAfterChar(tryConsumeToken(p, "Char"), options)

\* an iteration after the one that ended as r, also at the end of the
\* token list
parseNextPastEnd(r, options) ==
    IF r.err # "" THEN r ELSE parseIteration(r.p, options)

\* The next iteration after the one that ended as r, if there is one:
\* none after an error or at the end of the token list
parseNext(r, options) ==
    IF r.err # "" \/ ~(r.p.index < Len(r.p.tokenList)) THEN r
    ELSE parseIteration(r.p, options)

\* The for loop of parsePatternString; r is the result of the iteration
\* before.
RECURSIVE parseLoop(_, _)
parseLoop(r, options) ==
    CASE r.err # "" -> Fail(r.err)
      [] ~(r.p.index < Len(r.p.tokenList)) -> Ok(r.p.partList)
      [] OTHER ->
           parseLoop(parseNext(parseNext(parseNext(parseNext(r, options), options),
                                         options), options), options)

\* parsePatternString once the input is tokenized (t is the result)
parseTokenList(t, options, cb) ==
    IF t.err # "" THEN Fail(t.err)
    ELSE parseLoop(PR("", newPatternParser(t.val, cb, options), None), options)

parsePatternString(input, options, cb) ==
    parseTokenList(tokenize(input, tokenizePolicyStrict), options, cb)


\* ------------------------------------------------------------------------
\* Part-list code generation
\* ------------------------------------------------------------------------

\* a convertModifierToString that returns the byte 0 for every modifier
convertModifierToStringNone(m) == <<>>

\* convertModifierToString, as a string ("" for the byte 0)
convertModifierToString(m) ==
    CASE m = "ZeroOrMore" -> <<"*">>
      [] m = "Optional" -> <<"?">>
      [] m = "OneOrMore" -> <<"+">>
      [] OTHER -> <<>>

partRegexpValue(p, options) ==
    CASE p.pType = "SegmentWildcard" -> generateSegmentWildcardRegexp(options)
      [] p.pType = "FullWildcard" -> fullWildcardRegexpValue
      [] OTHER -> p.value

\* What one iteration of the loop over the part list writes to result,
\* or the assertion error it returns (err)
regexpOfPart(p, options) ==
    LET regexpValue == partRegexpValue(p, options)
        mod == convertModifierToString(p.modifier)
        pre == escapeRegexpString(p.prefix)
        suf == escapeRegexpString(p.suffix)
    IN  IF p.pType = "FixedText"
        THEN IF p.modifier = "None" THEN Ok(escapeRegexpString(p.value))
             ELSE Ok(<<"(", "?", ":">> \o escapeRegexpString(p.value) \o <<")">> \o mod)
        ELSE IF p.name = <<>> THEN Fail("EmptyPartNameError")
        ELSE IF p.prefix = <<>> /\ p.suffix = <<>>
        THEN IF p.modifier \in {"None", "Optional"}
             THEN Ok(<<"(">> \o regexpValue \o <<")">> \o mod)
             ELSE Ok(<<"(", "(", "?", ":">> \o regexpValue \o <<")">> \o mod \o <<")">>)
        ELSE IF p.modifier \in {"None", "Optional"}
        THEN Ok(<<"(", "?", ":">> \o pre \o <<"(">> \o regexpValue \o <<")">> \o suf
                \o <<")">> \o mod)
        ELSE IF p.modifier \notin {"ZeroOrMore", "OneOrMore"} THEN Fail("InvalidModifierError")
        ELSE Ok(<<"(", "?", ":">> \o pre \o <<"(", "(", "?", ":">> \o regexpValue
                \o <<")", "(", "?", ":">> \o suf \o pre \o <<"(", "?", ":">> \o regexpValue
                \o <<")", ")", "*", ")">> \o suf \o <<")">>
                \o (IF p.modifier = "ZeroOrMore" THEN <<"?">> ELSE <<>>))

\* result.WriteString over the loop: what the first part writes (h), then
\* what the later parts write (t), unless one of them is an error
writeBoth(h, t) ==
    IF h.err # "" THEN h ELSE IF t.err # "" THEN t ELSE Ok(h.val \o t.val)

RECURSIVE regexpOfParts(_, _, _)
regexpOfParts(pl, options, i) ==
    IF i > Len(pl) THEN Ok(<<>>)
    ELSE writeBoth(regexpOfPart(pl[i], options), regexpOfParts(pl, options, i + 1))

\* only the parts before the first assertion error contribute; the name
\* list is dropped when an error is returned
RECURSIVE nameListOfParts(_)
nameListOfParts(pl) ==
    IF pl = <<>> THEN <<>>
    ELSE (IF Head(pl).pType = "FixedText" THEN <<>> ELSE <<Head(pl).name>>)
         \o nameListOfParts(Tail(pl))

\* generateRegularExpressionAndNameList: val is [re, nameList]
anchoredRegexp(body, pl, options) ==
    IF body.err # "" THEN Fail(body.err)
    ELSE Ok([re |-> (IF options.ignoreCase THEN <<"(", "?", "i", ")">> ELSE <<>>)
                    \o <<"\\", "A", "(", "?", ":">> \o body.val \o <<")", "\\", "z">>,
             nameList |-> nameListOfParts(pl)])

generateRegularExpressionAndNameList(pl, options) ==
    anchoredRegexp(regexpOfParts(pl, options, 1), pl, options)

\* What one iteration of the loop of generatePatternString writes
patternOfPart(pl, index, options) ==
    LET part == pl[index]
        hasPrevious == index > 1
        previousPart == pl[index - 1]
        hasNext == index < Len(pl)
        nextPart == pl[index + 1]
        mod == convertModifierToString(part.modifier)
    IN  IF part.pType = "FixedText"
        THEN IF part.modifier = "None" THEN Ok(escapePatternString(part.value))
             ELSE Ok(<<"{">> \o escapePatternString(part.value) \o <<"}">> \o mod)
        ELSE IF part.name = <<>> THEN Fail("panic")
        ELSE IF hasNext /\ nextPart.pType = "FixedText" /\ nextPart.value = <<>>
                /\ part.pType = "SegmentWildcard" /\ part.modifier = "None"
                /\ part.suffix = <<>> /\ part.prefix \in {<<>>, <<options.prefixCodePoint>>}
                /\ ~IsDigit(part.name[1])
        THEN Fail("panic")
        ELSE IF hasPrevious /\ previousPart.pType = "FixedText" /\ previousPart.value = <<>>
                /\ part.prefix = <<>> /\ part.suffix = <<>>
        THEN Fail("panic")
        ELSE
        LET customName == ~IsDigit(part.name[1])
            needGrouping1 ==
                part.suffix # <<>>
                \/ (part.prefix # <<>> /\ part.prefix # <<options.prefixCodePoint>>)
            needGrouping2 ==
                IF ~needGrouping1 /\ customName /\ part.pType = "SegmentWildcard"
                   /\ part.modifier = "None" /\ hasNext
                   /\ nextPart.prefix = <<>> /\ nextPart.suffix = <<>>
                THEN IF nextPart.pType = "FixedText"
                     THEN isValidNameCodePoint(nextPart.value[1], FALSE)
                     ELSE IsDigit(nextPart.name[1])
                ELSE needGrouping1
            needGrouping ==
                IF ~needGrouping2 /\ part.prefix = <<>> /\ hasPrevious
                   /\ previousPart.pType = "FixedText"
                   /\ previousPart.value[Len(previousPart.value)] = options.prefixCodePoint
                THEN TRUE
                ELSE needGrouping2
            body ==
                CASE part.pType = "Regexp" -> <<"(">> \o part.value \o <<")">>
                  [] part.pType = "SegmentWildcard" ->
                       IF ~customName
                       THEN <<"(">> \o generateSegmentWildcardRegexp(options) \o <<")">>
                       ELSE <<>>
                  [] OTHER ->
                       IF ~customName /\ (~hasPrevious
                                           \/ previousPart.pType = "FixedText"
                                           \/ previousPart.modifier # "None"
                                           \/ needGrouping
                                           \/ part.prefix # <<>>)
                       THEN <<"*">>
                       ELSE <<"(">> \o fullWildcardRegexpValue \o <<")">>
            sep == IF part.pType = "SegmentWildcard" /\ customName /\ part.suffix # <<>>
                      /\ isValidNameCodePoint(part.suffix[1], FALSE)
                   THEN <<"\\">> ELSE <<>>
        IN  Ok((IF needGrouping THEN <<"{">> ELSE <<>>)
               \o escapePatternString(part.prefix)
               \o (IF customName THEN <<":">> \o part.name ELSE <<>>)
               \o body \o sep \o escapePatternString(part.suffix)
               \o (IF needGrouping THEN <<"}">> ELSE <<>>)
               \o mod)

RECURSIVE patternOfParts(_, _, _)
patternOfParts(pl, options, i) ==
    IF i > Len(pl) THEN Ok(<<>>)
    ELSE writeBoth(patternOfPart(pl, i, options), patternOfParts(pl, options, i + 1))

generatePatternString(pl, options) == patternOfParts(pl, options, 1)


\* ------------------------------------------------------------------------
\* The regular expression engine (package regexp): regexp.Compile as a
\* parser of the source into a tree, FindStringSubmatch as a backtracking
\* match in the engine's leftmost-first preference order.
\* Nodes: <<"lit", c, foldCase>>, <<"any">>, <<"class", negated, set>>,
\* <<"bol">>, <<"eol">>, <<"cat", nodes>>, <<"alt", left, right>>,
\* <<"rep", op, greedy, node>>, <<"cap", index, node>>.
\* ------------------------------------------------------------------------

\* The state of the parser: the position of the next code point, the
\* number of capture groups opened, the case-insensitive flag, and the stack
\* of the groups that are open, the whole expression at the bottom.
RS(e, pos, ncap, ci, stack) ==
    [err |-> e, pos |-> pos, ncap |-> ncap, ci |-> ci, stack |-> stack]

RErr(e) == RS(e, 0, 0, FALSE, <<>>)

\* A group on the stack: the items of the concatenation being read, the
\* alternatives completed before it, the index of its capture (0 without
\* one) and the flag to restore after its closing ')'.
reFrame(capIndex, ciOuter) ==
    [items |-> <<>>, alts |-> <<>>, capIndex |-> capIndex, ciOuter |-> ciOuter]

RepetitionOps == {"*", "+", "?"}

\* the members of a character class from pos up to the closing ']'
RECURSIVE reClass(_, _, _, _)
reClass(expr, pos, set, first) ==
    IF pos > Len(expr) THEN [err |-> "missing closing ]", set |-> set, pos |-> pos]
    ELSE IF expr[pos] = "]" /\ ~first THEN [err |-> "", set |-> set, pos |-> pos + 1]
    ELSE IF expr[pos] = "\\"
    THEN IF pos + 1 > Len(expr) THEN [err |-> "trailing backslash", set |-> set, pos |-> pos]
         ELSE IF expr[pos + 1] = "d" THEN reClass(expr, pos + 2, set \cup Digits, FALSE)
         ELSE IF expr[pos + 1] \in Letters \cup Digits
         THEN [err |-> "unmodelled escape", set |-> set, pos |-> pos]
         ELSE reClass(expr, pos + 2, set \cup {expr[pos + 1]}, FALSE)
    ELSE IF expr[pos] = "-" /\ ~first /\ pos + 1 <= Len(expr) /\ expr[pos + 1] # "]"
    THEN [err |-> "unmodelled range", set |-> set, pos |-> pos]
    ELSE reClass(expr, pos + 1, set \cup {expr[pos]}, FALSE)

\* the position of the '>' closing a group name that starts at pos, 0 if
\* the name is empty, malformed or unterminated
RECURSIVE reGroupName(_, _, _)
reGroupName(expr, pos, start) ==
    IF pos > Len(expr) THEN 0
    ELSE IF expr[pos] = ">" THEN (IF pos = start THEN 0 ELSE pos)
    ELSE IF expr[pos] \in (Letters \ NonASCII) \cup Digits \cup {"_"}
    THEN reGroupName(expr, pos + 1, start)
    ELSE 0

\* the code point k places after pos is c
reLooking(expr, pos, k, c) == pos + k <= Len(expr) /\ expr[pos + k] = c

\* the alternation of alts[k..] and the concatenation last after them
RECURSIVE reAlternate(_, _, _)
reAlternate(alts, last, k) ==
    IF k > Len(alts) THEN last ELSE <<"alt", alts[k], reAlternate(alts, last, k + 1)>>

\* the node of the group f when it is closed
reGroupNode(f) ==
    IF f.capIndex = 0 THEN reAlternate(f.alts, <<"cat", f.items>>, 1)
    ELSE <<"cap", f.capIndex, reAlternate(f.alts, <<"cat", f.items>>, 1)>>

\* stack with node added to the concatenation of the innermost group
rePushItem(stack, node) == [stack EXCEPT ![Len(stack)].items = Append(@, node)]

\* the repetition operator at q after node, lazy when followed by '?'
reRepeatOp(expr, stack, node, q, ncap, ci, lazy) ==
    IF reLooking(expr, q, IF lazy THEN 2 ELSE 1, "*")
       \/ reLooking(expr, q, IF lazy THEN 2 ELSE 1, "+")
       \/ reLooking(expr, q, IF lazy THEN 2 ELSE 1, "?")
    THEN RErr("invalid nested repetition operator")
    ELSE RS("", q + (IF lazy THEN 2 ELSE 1), ncap, ci,
            rePushItem(stack, <<"rep", expr[q], ~lazy, node>>))

\* node, which ends before q, and the repetition operators after it
reRepeat(expr, stack, node, q, ncap, ci) ==
    CASE q <= Len(expr) /\ expr[q] \in RepetitionOps ->
           reRepeatOp(expr, stack, node, q, ncap, ci, reLooking(expr, q, 1, "?"))
      [] q + 1 <= Len(expr) /\ expr[q] = "{" /\ expr[q + 1] \in Digits ->
           RErr("unmodelled repetition count")
      [] OTHER -> RS("", q, ncap, ci, rePushItem(stack, node))

\* a group opens: its body starts at pos
reLeftParen(st, pos, ncap, ciInner, capIndex) ==
    RS("", pos, ncap, ciInner, Append(st.stack, reFrame(capIndex, st.ci)))

\* a named group whose name ends at the '>' at e
reNamedGroup(st, e) ==
    IF e = 0 THEN RErr("invalid named capture")
    ELSE reLeftParen(st, e + 1, st.ncap + 1, st.ci, st.ncap + 1)

\* "(?" at st.pos: a non-capturing group, a named group or flags
rePerlFlags(expr, st) ==
    CASE reLooking(expr, st.pos, 2, ":") -> reLeftParen(st, st.pos + 3, st.ncap, st.ci, 0)
      [] reLooking(expr, st.pos, 2, "P") /\ reLooking(expr, st.pos, 3, "<") ->
           reNamedGroup(st, reGroupName(expr, st.pos + 4, st.pos + 4))
      [] reLooking(expr, st.pos, 2, "<") ->
           reNamedGroup(st, reGroupName(expr, st.pos + 3, st.pos + 3))
      [] reLooking(expr, st.pos, 2, "i") /\ reLooking(expr, st.pos, 3, ")") ->
           reRepeat(expr, st.stack, <<"cat", <<>>>>, st.pos + 4, st.ncap, TRUE)
      [] reLooking(expr, st.pos, 2, "i") /\ reLooking(expr, st.pos, 3, ":") ->
           reLeftParen(st, st.pos + 4, st.ncap, TRUE, 0)
      [] \E f \in {"m", "s", "U", "-"} : reLooking(expr, st.pos, 2, f) ->
           RErr("unmodelled flags")
      [] OTHER -> RErr("invalid or unsupported Perl syntax")

\* ')' at st.pos: the innermost group is closed and becomes an item of
\* the group around it; the flags of that group are restored
reRightParen(expr, st) ==
    IF Len(st.stack) = 1 THEN RErr("unexpected )")
    ELSE reRepeat(expr, SubSeq(st.stack, 1, Len(st.stack) - 1),
                  reGroupNode(st.stack[Len(st.stack)]), st.pos + 1, st.ncap,
                  st.stack[Len(st.stack)].ciOuter)

\* '|' at st.pos: the concatenation read is an alternative of the group
reVerticalBar(st) ==
    RS("", st.pos + 1, st.ncap, st.ci,
       [st.stack EXCEPT ![Len(st.stack)] =
           [@ EXCEPT !.alts = Append(@, <<"cat", st.stack[Len(st.stack)].items>>),
                     !.items = <<>>]])

\* a character class whose members k were read
reClassItem(expr, st, k, neg) ==
    IF k.err # "" THEN RErr(k.err)
    ELSE reRepeat(expr, st.stack, <<"class", neg, k.set>>, k.pos, st.ncap, st.ci)

\* an escape sequence at st.pos
reEscape(expr, st) ==
    CASE st.pos + 1 > Len(expr) -> RErr("trailing backslash")
      [] expr[st.pos + 1] = "A" ->
           reRepeat(expr, st.stack, <<"bol">>, st.pos + 2, st.ncap, st.ci)
      [] expr[st.pos + 1] = "z" ->
           reRepeat(expr, st.stack, <<"eol">>, st.pos + 2, st.ncap, st.ci)
      [] expr[st.pos + 1] = "d" ->
           reRepeat(expr, st.stack, <<"class", FALSE, Digits>>, st.pos + 2, st.ncap, st.ci)
      [] expr[st.pos + 1] \in (Letters \cup Digits) \ {"A", "z", "d"} ->
           RErr("unmodelled escape")
      [] OTHER ->
           reRepeat(expr, st.stack, <<"lit", expr[st.pos + 1], st.ci>>, st.pos + 2, st.ncap,
                    st.ci)

\* one step of the parser on the code point at st.pos
reStep(expr, st) ==
    CASE expr[st.pos] = "(" /\ reLooking(expr, st.pos, 1, "?") -> rePerlFlags(expr, st)
      [] expr[st.pos] = "(" ->
           reLeftParen(st, st.pos + 1, st.ncap + 1, st.ci, st.ncap + 1)
      [] expr[st.pos] = ")" -> reRightParen(expr, st)
      [] expr[st.pos] = "|" -> reVerticalBar(st)
      [] expr[st.pos] = "[" /\ reLooking(expr, st.pos, 1, "^") ->
           reClassItem(expr, st, reClass(expr, st.pos + 2, {}, TRUE), TRUE)
      [] expr[st.pos] = "[" ->
           reClassItem(expr, st, reClass(expr, st.pos + 1, {}, TRUE), FALSE)
      [] expr[st.pos] = "\\" -> reEscape(expr, st)
      [] expr[st.pos] = "." -> reRepeat(expr, st.stack, <<"any">>, st.pos + 1, st.ncap, st.ci)
      [] expr[st.pos] = "^" -> reRepeat(expr, st.stack, <<"bol">>, st.pos + 1, st.ncap, st.ci)
      [] expr[st.pos] = "$" -> reRepeat(expr, st.stack, <<"eol">>, st.pos + 1, st.ncap, st.ci)
      [] expr[st.pos] \in RepetitionOps -> RErr("missing argument to repetition operator")
      [] OTHER ->
           reRepeat(expr, st.stack, <<"lit", expr[st.pos], st.ci>>, st.pos + 1, st.ncap, st.ci)

\* the parser's loop over the expression from the state st on
RECURSIVE reParse(_, _)
reParse(expr, st) ==
    IF st.err # "" \/ st.pos > Len(expr) THEN st ELSE reParse(expr, reStep(expr, st))

\* the whole expression was read, the parser is left in the state st
regexpCompiled(st) ==
    CASE st.err # "" -> Fail(st.err)
      [] Len(st.stack) > 1 -> Fail("missing closing )")
      [] OTHER -> Ok([node |-> reGroupNode(st.stack[1]), numSubexp |-> st.ncap])

\* regexp.Compile: val is the compiled expression [node, numSubexp]
regexpCompile(expr) ==
    regexpCompiled(reParse(expr, RS("", 1, 0, FALSE, <<reFrame(0, FALSE)>>)))

\* The matches of node on s after the outcome r = [pos, caps] (the offset
\* reached and the captures so far), as the sequence of outcomes in the
\* engine's order of preference.
RECURSIVE reMatch(_, _, _)
RECURSIVE reMatchAll(_, _, _)
RECURSIVE reMatchCat(_, _, _, _, _)
RECURSIVE reMatchStar(_, _, _, _)

\* for every outcome of rs in order, the outcomes of node after it
reMatchAll(node, s, rs) ==
    CASE Len(rs) = 0 -> <<>>
      [] Len(rs) = 1 -> reMatch(node, s, rs[1])
      [] OTHER -> Concat([j \in 1..Len(rs) |-> reMatch(node, s, rs[j])])

\* nodes[lo], ..., nodes[hi] one after the other, after the outcomes rs
reMatchCat(nodes, s, rs, lo, hi) ==
    CASE Len(rs) = 0 \/ lo > hi -> rs
      [] lo = hi -> reMatchAll(nodes[lo], s, rs)
      [] OTHER -> reMatchCat(nodes, s, reMatchCat(nodes, s, rs, lo, (lo + hi) \div 2),
                             (lo + hi) \div 2 + 1, hi)

\* the outcomes of h that consumed input after the offset i
reProgress(h, i) == SelectSeq(h, LAMBDA o : o.pos > i)

\* zero or more further iterations of node after each outcome of rs, each
\* iteration consuming input
reMatchStar(node, greedy, s, rs) ==
    CASE Len(rs) = 0 -> <<>>
      [] Len(rs) = 1 /\ greedy ->
           reMatchStar(node, greedy, s, reProgress(reMatch(node, s, rs[1]), rs[1].pos))
           \o <<rs[1]>>
      [] Len(rs) = 1 ->
           <<rs[1]>>
           \o reMatchStar(node, greedy, s, reProgress(reMatch(node, s, rs[1]), rs[1].pos))
      [] OTHER -> Concat([j \in 1..Len(rs) |-> reMatchStar(node, greedy, s, <<rs[j]>>)])

\* the outcomes h of the capture group index, which started at offset i
reCapture(index, s, i, h) ==
    [j \in 1..Len(h) |->
        [pos |-> h[j].pos, caps |-> [h[j].caps EXCEPT ![index] = SubSeq(s, i + 1, h[j].pos)]]]

\* the repetition op of node after r; h is the outcomes of one iteration
reMatchRep(op, greedy, node, s, r, h) ==
    CASE op = "?" -> IF greedy THEN h \o <<r>> ELSE <<r>> \o h
      [] op = "+" ->
           Concat([j \in 1..Len(h) |->
                      IF h[j].pos > r.pos THEN reMatchStar(node, greedy, s, <<h[j]>>)
                      ELSE <<h[j]>>])
      [] OTHER -> reMatchStar(node, greedy, s, <<r>>)

reMatch(node, s, r) ==
    CASE node[1] = "lit" ->
           IF r.pos < Len(s) /\ (s[r.pos + 1] = node[2]
                                  \/ (node[3] /\ ToLower(s[r.pos + 1]) = ToLower(node[2])))
           THEN <<[r EXCEPT !.pos = @ + 1]>> ELSE <<>>
      [] node[1] = "any" -> IF r.pos < Len(s) THEN <<[r EXCEPT !.pos = @ + 1]>> ELSE <<>>
      [] node[1] = "class" ->
           IF r.pos < Len(s) /\ ((s[r.pos + 1] \in node[3]) # node[2])
           THEN <<[r EXCEPT !.pos = @ + 1]>> ELSE <<>>
      [] node[1] = "bol" -> IF r.pos = 0 THEN <<r>> ELSE <<>>
      [] node[1] = "eol" -> IF r.pos = Len(s) THEN <<r>> ELSE <<>>
      [] node[1] = "cat" -> reMatchCat(node[2], s, <<r>>, 1, Len(node[2]))
      [] node[1] = "alt" -> reMatch(node[2], s, r) \o reMatch(node[3], s, r)
      [] node[1] = "cap" -> reCapture(node[2], s, r.pos, reMatch(node[3], s, r))
      [] OTHER -> reMatchRep(node[2], node[3], node[4], s, r, reMatch(node[4], s, r))

\* n empty submatches
RECURSIVE EmptySubmatches(_)
EmptySubmatches(n) == IF n = 0 THEN <<>> ELSE Append(EmptySubmatches(n - 1), <<>>)

\* re.FindStringSubmatch(s) for an expression that is anchored at both
\* ends: None (nil) without a match, else the slice of the whole match
\* and the numSubexp submatches
\* the preferred outcome among h that ends at the end of s
preferredMatch(h, s) ==
    IF \A j \in 1..Len(h) : h[j].pos # Len(s) THEN None
    ELSE Some(<<s>> \o h[CHOOSE j \in 1..Len(h) :
                             /\ h[j].pos = Len(s)
                             /\ \A y \in 1..(j - 1) : h[y].pos # Len(s)].caps)

FindStringSubmatch(re, s) ==
    preferredMatch(reMatch(re.node, s, [pos |-> 0, caps |-> EmptySubmatches(re.numSubexp)]), s)

MatchString(re, s) == ~IsNil(FindStringSubmatch(re, s))


\* ------------------------------------------------------------------------
\* url.Parse and urlParser.BasicParser of the external URL parser, for
\* inputs without dot segments, backslashes, tabs or newlines.
\* ------------------------------------------------------------------------

\* the 0-based index of the first code point of s in set, -1 if none
IndexAny(s, set) ==
    IF \E i \in 1..Len(s) : s[i] \in set
    THEN (CHOOSE i \in 1..Len(s) : s[i] \in set /\ \A j \in 1..(i - 1) : s[j] \notin set) - 1
    ELSE -1

Url(scheme, username, password, hostname, port, pathname, query, fragment, opaque) ==
    [Scheme |-> scheme, Username |-> username, Password |-> password,
     Hostname |-> hostname, Port |-> port, Pathname |-> pathname,
     Query |-> query, Fragment |-> fragment, OpaquePath |-> opaque]

\* the number of leading '/' of s
RECURSIVE LeadingSlashes(_)
LeadingSlashes(s) ==
    IF s # <<>> /\ s[1] = "/" THEN 1 + LeadingSlashes(Tail(s)) ELSE 0

\* s before the index i and s after it; none when i is -1
Before(s, i, none) == IF i = -1 THEN none ELSE Slice(s, 0, i)

After(s, i, none) == IF i = -1 THEN none ELSE Slice(s, i + 1, Len(s))

\* the index of the ':' before the port of hostport, -1 if none
portSeparator(hostport) ==
    IF hostport # <<>> /\ hostport[1] = "["
    THEN (IF hostport[Len(hostport)] = "]" THEN -1 ELSE LastIndex(hostport, ":"))
    ELSE IndexAny(hostport, {":"})

\* the URL of the parts of an authority and a path
authorityUrl(scheme, user, pass, host, port, path, query, fragment) ==
    LET h == canonicalizeHostname(host, scheme)
        portNumber == FormatFloat(DecimalValue(port))
    IN  IF IsSpecialScheme(scheme) /\ host = <<>> THEN Fail("url parse error")
        ELSE IF h.err # "" THEN Fail("url parse error")
        ELSE IF \E i \in 1..Len(port) : port[i] \notin Digits THEN Fail("url parse error")
        ELSE IF DecimalValue(port) > 65535 THEN Fail("url parse error")
        ELSE Ok(Url(scheme,
                    PercentEncodeString(user, UserInfoPercentEncodeSet),
                    PercentEncodeString(pass, UserInfoPercentEncodeSet),
                    h.val,
                    IF port = <<>> \/ portNumber = DefaultPorts(scheme) THEN <<>> ELSE portNumber,
                    IF path = <<>> /\ IsSpecialScheme(scheme) THEN <<"/">>
                    ELSE PercentEncodeString(path, PathPercentEncodeSet),
                    query, fragment, FALSE))

parseUserinfoAndHost(scheme, userinfo, hostport, path, query, fragment) ==
    authorityUrl(scheme,
                 Before(userinfo, IndexAny(userinfo, {":"}), userinfo),
                 After(userinfo, IndexAny(userinfo, {":"}), <<>>),
                 Before(hostport, portSeparator(hostport), hostport),
                 After(hostport, portSeparator(hostport), <<>>),
                 path, query, fragment)

parseAuthority(scheme, authority, path, query, fragment) ==
    parseUserinfoAndHost(scheme,
                         Before(authority, LastIndex(authority, "@"), <<>>),
                         After(authority, LastIndex(authority, "@"), authority),
                         path, query, fragment)

\* the authority and path of a hierarchical URL of the given scheme
parseAuthorityAndPath(scheme, rest, query, fragment) ==
    parseAuthority(scheme,
                   Before(rest, IndexAny(rest, {"/"}), rest),
                   IF IndexAny(rest, {"/"}) = -1 THEN <<>>
                   ELSE Slice(rest, IndexAny(rest, {"/"}), Len(rest)),
                   query, fragment)

\* an input with a scheme: rest is what follows the ':'
parseAbsolute(scheme, rest, query, fragment) ==
    IF IsSpecialScheme(scheme)
    THEN parseAuthorityAndPath(scheme, Slice(rest, LeadingSlashes(rest), Len(rest)),
                               query, fragment)
    ELSE IF LeadingSlashes(rest) >= 2
    THEN parseAuthorityAndPath(scheme, Slice(rest, 2, Len(rest)), query, fragment)
    ELSE IF LeadingSlashes(rest) = 1
    THEN Ok(Url(scheme, <<>>, <<>>, <<>>, <<>>,
                PercentEncodeString(rest, PathPercentEncodeSet),
                query, fragment, FALSE))
    ELSE Ok(Url(scheme, <<>>, <<>>, <<>>, <<>>,
                PercentEncodeString(rest, C0ControlPercentEncodeSet),
                query, fragment, TRUE))

\* an input without a scheme, resolved against the base URL b
parseRelative(b, beforeQuery, hasQuery, query, hasHash, fragment) ==
    IF b.OpaquePath
    THEN IF beforeQuery = <<>> /\ ~hasQuery /\ hasHash
         THEN Ok([b EXCEPT !.Fragment = fragment])
         ELSE Fail("url parse error")
    ELSE IF LeadingSlashes(beforeQuery) >= 2
    THEN parseAuthorityAndPath(b.Scheme, Slice(beforeQuery, 2, Len(beforeQuery)),
                               query, fragment)
    ELSE IF beforeQuery = <<>>
    THEN Ok([b EXCEPT !.Query = IF hasQuery THEN query ELSE b.Query,
                      !.Fragment = fragment])
    ELSE Ok([b EXCEPT
             !.Pathname =
                 IF beforeQuery[1] = "/"
                 THEN PercentEncodeString(beforeQuery, PathPercentEncodeSet)
                 ELSE Slice(b.Pathname, 0, LastIndex(b.Pathname, "/") + 1)
                      \o PercentEncodeString(beforeQuery, PathPercentEncodeSet),
             !.Query = query, !.Fragment = fragment])

parseBeforeQuery(beforeQuery, hasQuery, query, hasHash, fragment, base) ==
    IF IndexAny(beforeQuery, {":"}) > 0
       /\ IsScheme(Slice(beforeQuery, 0, IndexAny(beforeQuery, {":"})))
    THEN parseAbsolute(MapLower(Slice(beforeQuery, 0, IndexAny(beforeQuery, {":"}))),
                       Slice(beforeQuery, IndexAny(beforeQuery, {":"}) + 1, Len(beforeQuery)),
                       query, fragment)
    ELSE IF IsNil(base) THEN Fail("url parse error")
    ELSE parseRelative(Get(base), beforeQuery, hasQuery, query, hasHash, fragment)

parseBeforeHash(beforeHash, hasHash, fragment, base) ==
    parseBeforeQuery(Before(beforeHash, IndexAny(beforeHash, {"?"}), beforeHash),
                     IndexAny(beforeHash, {"?"}) # -1,
                     PercentEncodeString(After(beforeHash, IndexAny(beforeHash, {"?"}), <<>>),
                                         QueryPercentEncodeSet),
                     hasHash, fragment, base)

\* urlParser.BasicParser(input, base, nil, url.NoState); base is None or
\* Some(url)
BasicParser(input, base) ==
    IF ParserRejects(input) THEN Fail("url parse error")
    ELSE parseBeforeHash(Before(input, IndexAny(input, {"#"}), input),
                         IndexAny(input, {"#"}) # -1,
                         PercentEncodeString(After(input, IndexAny(input, {"#"}), <<>>),
                                             FragmentPercentEncodeSet),
                         base)

\* url.Parse(rawUrl)
urlParse(rawUrl) == BasicParser(rawUrl, None)


\* ------------------------------------------------------------------------
\* Components
\* ------------------------------------------------------------------------

Component(patternString, regularExpression, groupNameList, hasRegexpGroups) ==
    [patternString |-> patternString, regularExpression |-> regularExpression,
     groupNameList |-> groupNameList, hasRegexpGroups |-> hasRegexpGroups]

\* compileComponent, one operator per statement; re and ps are the
\* results of regexp.Compile and generatePatternString
newComponent(partList, nameList, re, ps) ==
    IF re.err # "" THEN Fail(re.err)
    ELSE IF ps.err # "" THEN Fail(ps.err)
    ELSE Ok(Component(ps.val, re.val, nameList,
                      \E i \in 1..Len(partList) : partList[i].pType = "Regexp"))

compileRegexp(partList, g, options) ==
    IF g.err # "" THEN Fail(g.err)
    ELSE newComponent(partList, g.val.nameList, regexpCompile(g.val.re),
                      generatePatternString(partList, options))

compileParts(pl, options) ==
    IF pl.err # "" THEN Fail(pl.err)
    ELSE compileRegexp(pl.val, generateRegularExpressionAndNameList(pl.val, options), options)

compileComponent(input, cb, options) ==
    compileParts(parsePatternString(input, options, cb), options)

protocolComponentMatchesSpecialScheme(c) ==
    \E i \in 1..Len(specialSchemeList) : MatchString(c.regularExpression, specialSchemeList[i])

\* ------------------------------------------------------------------------
\* URLPatternInit and its processing
\* ------------------------------------------------------------------------

ComponentNames ==
    <<"Protocol", "Username", "Password", "Hostname", "Port", "Pathname", "Search", "Hash">>

URLPatternInit(protocol, username, password, hostname, port, pathname, search, hash, baseURL) ==
    [Protocol |-> protocol, Username |-> username, Password |-> password,
     Hostname |-> hostname, Port |-> port, Pathname |-> pathname,
     Search |-> search, Hash |-> hash, BaseURL |-> baseURL]

\* the zero value URLPatternInit{}
EmptyInit == URLPatternInit(None, None, None, None, None, None, None, None, None)

processBaseURLString(input, uType) ==
    IF uType # "pattern" THEN input ELSE escapePatternString(input)

processProtocolForInit(value, pType) ==
    LET strippedValue == TrimSuffix(value, ":")
    IN  IF pType = "pattern" THEN Ok(strippedValue) ELSE canonicalizeProtocol(strippedValue)

processUsernameForInit(value, uType) ==
    IF uType = "pattern" THEN Ok(value) ELSE canonicalizeUsername(value)

processPasswordForInit(value, uType) ==
    IF uType = "pattern" THEN Ok(value) ELSE canonicalizePassword(value)

processHostnameForInit(value, protocolValue, uType) ==
    IF uType = "pattern" THEN Ok(value)
    ELSE IF protocolValue = <<>> THEN canonicalizeDomainName(value)
    ELSE IF IsSpecialScheme(protocolValue) THEN canonicalizeDomainName(value)
    ELSE canonicalizeHostname(value, protocolValue)

processPortForInit(portValue, protocolValue, pType) ==
    IF pType = "pattern" THEN Ok(portValue) ELSE canonicalizePort(portValue, protocolValue)

processPathnameForInit(pathnameValue, protocolValue, ptype) ==
    IF ptype = "pattern" THEN Ok(pathnameValue)
    ELSE IF protocolValue = <<>> THEN canonicalizePathname(pathnameValue)
    ELSE IF IsSpecialScheme(protocolValue) THEN canonicalizePathname(pathnameValue)
    ELSE canonicalizeOpaquePathname(pathnameValue)

processSearchForInit(value, sType) ==
    LET strippedValue == TrimPrefix(value, "?")
    IN  IF sType = "pattern" THEN Ok(strippedValue) ELSE canonicalizeSearch(strippedValue)

processHashForInit(value, hType) ==
    LET strippedValue == TrimPrefix(value, "#")
    IN  IF hType = "pattern" THEN Ok(strippedValue) ELSE canonicalizeHash(value)

isAbsolutePathname(input, pType) ==
    IF input = <<>> THEN FALSE
    ELSE IF input[1] = "/" THEN TRUE
    ELSE IF pType = "url" THEN FALSE
    ELSE HasPrefix(input, <<"\\", "/">>) \/ HasPrefix(input, <<"{", "/">>)

hostnamePatternIsIPv6Address(input) ==
    IF Len(input) < 2 THEN FALSE
    ELSE \/ input[1] = "["
         \/ input[1] = "{" /\ input[2] = "["
         \/ input[1] = "\\" /\ input[2] = "["

\* the values process takes from the base URL before it processes the
\* values of init
\* an inheritFromBase that takes username and password of the base URL
\* when a pattern is constructed too
inheritFromBaseWithUserinfo(init, iType, result, baseURL) ==
    [result EXCEPT
     !.Protocol = IF IsNil(init.Protocol)
                  THEN Some(processBaseURLString(baseURL.Scheme, iType)) ELSE @,
     !.Username = IF IsNil(init.Username)
                  THEN Some(processBaseURLString(baseURL.Username, iType)) ELSE @,
     !.Password = IF IsNil(init.Password)
                  THEN Some(processBaseURLString(baseURL.Password, iType)) ELSE @]

inheritFromBase(init, iType, result, baseURL) ==
    LET nP == IsNil(init.Protocol)
        nPH == nP /\ IsNil(init.Hostname)
        nPHP == nPH /\ IsNil(init.Port)
        nPHPU == iType # "pattern" /\ nPHP /\ IsNil(init.Username)
        nPHPPa == nPHP /\ IsNil(init.Pathname)
        nPHPPaS == nPHPPa /\ IsNil(init.Search)
    IN  [result EXCEPT
         !.Protocol = IF nP THEN Some(processBaseURLString(baseURL.Scheme, iType)) ELSE @,
         !.Username = IF nPHPU THEN Some(processBaseURLString(baseURL.Username, iType))
                      ELSE @,
         !.Password = IF nPHPU /\ IsNil(init.Password)
                      THEN Some(processBaseURLString(baseURL.Password, iType))
                      ELSE @,
         !.Hostname = IF nPH THEN Some(processBaseURLString(baseURL.Hostname, iType)) ELSE @,
         !.Port = IF nPHP THEN Some(baseURL.Port) ELSE @,
         !.Pathname = IF nPHPPa THEN Some(processBaseURLString(baseURL.Pathname, iType))
                      ELSE @,
         !.Search = IF nPHPPaS THEN Some(processBaseURLString(baseURL.Query, iType)) ELSE @,
         !.Hash = IF nPHPPaS /\ IsNil(init.Hash)
                  THEN Some(processBaseURLString(baseURL.Fragment, iType))
                  ELSE @]

\* the join of the revision of src/urlpattern.go:441-445, which joins the
\* pathname to the base URL's path when that path is opaque
joinedPathnameWhenOpaque(pathname, baseURL, iType) ==
    IF ~IsNil(baseURL) /\ Get(baseURL).OpaquePath /\ ~isAbsolutePathname(pathname, iType)
    THEN TrimSuffix(processBaseURLString(Get(baseURL).Pathname, iType), "/") \o pathname
    ELSE pathname

\* the pathname of init, joined to the directory of the base URL's path
\* when it is not absolute; baseURL is None without a base URL
joinedPathname(pathname, baseURL, iType) ==
    IF ~IsNil(baseURL) /\ ~Get(baseURL).OpaquePath /\ ~isAbsolutePathname(pathname, iType)
       /\ LastIndex(processBaseURLString(Get(baseURL).Pathname, iType), "/") # -1
    THEN Slice(processBaseURLString(Get(baseURL).Pathname, iType), 0,
               LastIndex(processBaseURLString(Get(baseURL).Pathname, iType), "/") + 1)
         \o pathname
    ELSE pathname

\* the processed value of the component of init named field; result is
\* the result so far, of which the protocol is read
processedValue(field, init, iType, result, baseURL) ==
    LET proto == IF IsNil(result.Protocol) THEN <<>> ELSE Get(result.Protocol)
    IN  CASE field = "Protocol" -> processProtocolForInit(Get(init.Protocol), iType)
          [] field = "Username" -> processUsernameForInit(Get(init.Username), iType)
          [] field = "Password" -> processPasswordForInit(Get(init.Password), iType)
          [] field = "Hostname" -> processHostnameForInit(Get(init.Hostname), proto, iType)
          [] field = "Port" -> processPortForInit(Get(init.Port), proto, iType)
          [] field = "Pathname" ->
               processPathnameForInit(joinedPathname(Get(init.Pathname), baseURL, iType),
                                      proto, iType)
          [] field = "Search" -> processSearchForInit(Get(init.Search), iType)
          [] OTHER -> processHashForInit(Get(init.Hash), iType)

\* result with the component named field set to the processed value v,
\* or the error of v
setProcessed(result, field, v) ==
    IF v.err # "" THEN Fail(v.err) ELSE Ok([result EXCEPT ![field] = Some(v.val)])

\* the "if init.X != nil" blocks of process from the i-th on; r is the
\* result so far or the error returned
RECURSIVE processFrom(_, _, _, _, _)
processFrom(init, iType, r, baseURL, i) ==
    IF i > Len(ComponentNames) \/ r.err # "" THEN r
    ELSE IF IsNil(init[ComponentNames[i]]) THEN processFrom(init, iType, r, baseURL, i + 1)
    ELSE processFrom(init, iType,
                     setProcessed(r.val, ComponentNames[i],
                                  processedValue(ComponentNames[i], init, iType, r.val,
                                                 baseURL)),
                     baseURL, i + 1)

\* process once init.BaseURL is parsed (parsed is the result)
processWithBase(init, iType, start, parsed) ==
    IF parsed.err # "" THEN Fail(parsed.err)
    ELSE processFrom(init, iType, Ok(inheritFromBase(init, iType, start, parsed.val)),
                     Some(parsed.val), 1)

\* init.process(iType, protocol, ..., hash): start is the record of the
\* eight values passed in (BaseURL None); val is the processed init
process(init, iType, start) ==
    IF ~IsNil(init.BaseURL) THEN processWithBase(init, iType, start, urlParse(Get(init.BaseURL)))
    ELSE processFrom(init, iType, Ok(start), None, 1)


\* ------------------------------------------------------------------------
\* The constructor string parser
\* ------------------------------------------------------------------------

newConstructorTypeParser(input, tokenList) ==
    [input |-> input, tokenList |-> tokenList, result |-> EmptyInit,
     componentStart |-> 0, tokenIndex |-> 0, tokenIncrement |-> 1,
     groupDepth |-> 0, hostnameIPv6BracketDepth |-> 0,
     protocolMatchesASpecialScheme |-> FALSE, state |-> "Init"]

getSafeToken(p, index) ==
    IF index < Len(p.tokenList) THEN At(p.tokenList, index)
    ELSE At(p.tokenList, Len(p.tokenList) - 1)

isNonSpecialPatternChar(p, index, value) ==
    LET token == getSafeToken(p, index)
    IN  IF token.value # value THEN FALSE
        ELSE token.tType \in {"Char", "EscapedChar", "InvalidChar"}

isHashPrefix(p) == isNonSpecialPatternChar(p, p.tokenIndex, <<"#">>)

\* the search prefix that does not look at the previous token
isSearchPrefixAfterAnyToken(p) ==
    IF isNonSpecialPatternChar(p, p.tokenIndex, <<"?">>) THEN TRUE
    ELSE At(p.tokenList, p.tokenIndex).value = <<"?">>

isSearchPrefix(p) ==
    IF isNonSpecialPatternChar(p, p.tokenIndex, <<"?">>) THEN TRUE
    ELSE IF At(p.tokenList, p.tokenIndex).value # <<"?">> THEN FALSE
    ELSE LET previousIndex == p.tokenIndex - 1
         IN  IF previousIndex < 0 THEN TRUE
             ELSE getSafeToken(p, previousIndex).tType
                      \notin {"Name", "Regexp", "Close", "Asterisk"}

isGroupOpen(p) == At(p.tokenList, p.tokenIndex).tType = "Open"

isGroupClose(p) == At(p.tokenList, p.tokenIndex).tType = "Close"

isProtocolSuffix(p) == isNonSpecialPatternChar(p, p.tokenIndex, <<":">>)

nextIsAuthoritySlashes(p) ==
    /\ isNonSpecialPatternChar(p, p.tokenIndex + 1, <<"/">>)
    /\ isNonSpecialPatternChar(p, p.tokenIndex + 2, <<"/">>)

isIdentityTerminator(p) == isNonSpecialPatternChar(p, p.tokenIndex, <<"@">>)

isPathnameStart(p) == isNonSpecialPatternChar(p, p.tokenIndex, <<"/">>)

isPasswordPrefix(p) == isNonSpecialPatternChar(p, p.tokenIndex, <<":">>)

isPortPrefix(p) == isNonSpecialPatternChar(p, p.tokenIndex, <<":">>)

isIPV6Open(p) == isNonSpecialPatternChar(p, p.tokenIndex, <<"[">>)

isIPV6Close(p) == isNonSpecialPatternChar(p, p.tokenIndex, <<"]">>)

rewind(p) == [p EXCEPT !.tokenIndex = p.componentStart, !.tokenIncrement = 0]

rewindAndSetState(p, s) == [rewind(p) EXCEPT !.state = s]

makeComponentString(p) ==
    LET token == At(p.tokenList, p.tokenIndex)
        componentStartToken == getSafeToken(p, p.componentStart)
    IN  Slice(p.input, componentStartToken.index, token.index)

\* the switch of changeState: the component of the state that is left
\* is set to v
setStateComponent(result, state, v) ==
    CASE state = "Protocol" -> [result EXCEPT !.Protocol = Some(v)]
      [] state = "Username" -> [result EXCEPT !.Username = Some(v)]
      [] state = "Password" -> [result EXCEPT !.Password = Some(v)]
      [] state = "Hostname" -> [result EXCEPT !.Hostname = Some(v)]
      [] state = "Port" -> [result EXCEPT !.Port = Some(v)]
      [] state = "Pathname" -> [result EXCEPT !.Pathname = Some(v)]
      [] state = "Search" -> [result EXCEPT !.Search = Some(v)]
      [] state = "Hash" -> [result EXCEPT !.Hash = Some(v)]
      [] OTHER -> result

\* the three defaults changeState fills in, in the order of the code
defaultHostname(result, state, newState) ==
    IF IsNil(result.Hostname)
       /\ state \in {"Protocol", "Authority", "Username", "Password"}
       /\ newState \in {"Port", "Pathname", "Search", "Hash"}
    THEN [result EXCEPT !.Hostname = Some(<<>>)]
    ELSE result

\* the default of the pathname that is empty under every protocol
defaultPathnameEmpty(result, state, newState, protocolMatchesASpecialScheme) ==
    IF IsNil(result.Pathname)
       /\ state \in {"Protocol", "Authority", "Username", "Password", "Hostname", "Port"}
       /\ newState \in {"Search", "Hash"}
    THEN [result EXCEPT !.Pathname = Some(<<>>)]
    ELSE result

defaultPathname(result, state, newState, protocolMatchesASpecialScheme) ==
    IF IsNil(result.Pathname)
       /\ state \in {"Protocol", "Authority", "Username", "Password", "Hostname", "Port"}
       /\ newState \in {"Search", "Hash"}
    THEN [result EXCEPT !.Pathname = IF protocolMatchesASpecialScheme
                                     THEN Some(<<"/">>) ELSE Some(<<>>)]
    ELSE result

defaultSearch(result, state, newState) ==
    IF IsNil(result.Search)
       /\ state \in {"Protocol", "Authority", "Username", "Password", "Hostname", "Port",
                     "Pathname"}
       /\ newState = "Hash"
    THEN [result EXCEPT !.Search = Some(<<>>)]
    ELSE result

changeState(p, newState, skip) ==
    [p EXCEPT
     !.result =
         IF p.state # "Init" /\ newState # "Done"
         THEN defaultSearch(
                  defaultPathname(
                      defaultHostname(
                          setStateComponent(p.result, p.state, makeComponentString(p)),
                          p.state, newState),
                      p.state, newState, p.protocolMatchesASpecialScheme),
                  p.state, newState)
         ELSE setStateComponent(p.result, p.state, makeComponentString(p)),
     !.state = newState,
     !.tokenIndex = p.tokenIndex + skip,
     !.componentStart = p.tokenIndex + skip,
     !.tokenIncrement = 0]

\* the parser with the flag set when protocolComponent matches a special
\* scheme, or the error of compileComponent
setSpecialSchemeFlag(p, protocolComponent) ==
    IF protocolComponent.err # "" THEN Fail(protocolComponent.err)
    ELSE IF protocolComponentMatchesSpecialScheme(protocolComponent.val)
    THEN Ok([p EXCEPT !.protocolMatchesASpecialScheme = TRUE])
    ELSE Ok(p)

\* val is the parser after the flag is computed
computeProtocolMatchesSpecialSchemeFlag(p) ==
    setSpecialSchemeFlag(p, compileComponent(makeComponentString(p), "canonicalizeProtocol",
                                             Options(NUL, NUL, FALSE)))

\* the protocol state that looks at the special scheme before the slashes
protocolSuffixStepSpecialFirst(f) ==
    IF f.err # "" THEN f
    ELSE IF f.val.protocolMatchesASpecialScheme THEN Ok(changeState(f.val, "Authority", 1))
    ELSE IF nextIsAuthoritySlashes(f.val) THEN Ok(changeState(f.val, "Authority", 3))
    ELSE Ok(changeState(f.val, "Pathname", 1))

\* the protocol state at a protocol suffix, after the flag is computed
\* (f is the result)
protocolSuffixStep(f) ==
    IF f.err # "" THEN f
    ELSE IF nextIsAuthoritySlashes(f.val) THEN Ok(changeState(f.val, "Authority", 3))
    ELSE IF f.val.protocolMatchesASpecialScheme THEN Ok(changeState(f.val, "Authority", 1))
    ELSE Ok(changeState(f.val, "Pathname", 1))

\* the switch on the parser's state for the current token
parserStateStep(p) ==
    CASE p.state = "Init" ->
           Ok(IF isProtocolSuffix(p) THEN rewindAndSetState(p, "Protocol") ELSE p)
      [] p.state = "Protocol" ->
           IF isProtocolSuffix(p)
           THEN protocolSuffixStep(computeProtocolMatchesSpecialSchemeFlag(p))
           ELSE Ok(p)
      [] p.state = "Authority" ->
           Ok(IF isIdentityTerminator(p) THEN rewindAndSetState(p, "Username")
              ELSE IF isPathnameStart(p) \/ isSearchPrefix(p) \/ isHashPrefix(p)
              THEN rewindAndSetState(p, "Hostname")
              ELSE p)
      [] p.state = "Username" ->
           Ok(IF isPasswordPrefix(p) THEN changeState(p, "Password", 1)
              ELSE IF isIdentityTerminator(p) THEN changeState(p, "Hostname", 1)
              ELSE p)
      [] p.state = "Password" ->
           Ok(IF isIdentityTerminator(p) THEN changeState(p, "Hostname", 1) ELSE p)
      [] p.state = "Hostname" ->
           Ok(IF isIPV6Open(p)
              THEN [p EXCEPT !.hostnameIPv6BracketDepth = @ + 1]
              ELSE IF isIPV6Close(p)
              THEN [p EXCEPT !.hostnameIPv6BracketDepth = @ - 1]
              ELSE IF isPortPrefix(p) /\ p.hostnameIPv6BracketDepth = 0
              THEN changeState(p, "Port", 1)
              ELSE IF isPathnameStart(p) THEN changeState(p, "Pathname", 0)
              ELSE IF isSearchPrefix(p) THEN changeState(p, "Search", 1)
              ELSE IF isHashPrefix(p) THEN changeState(p, "Hash", 1)
              ELSE p)
      [] p.state = "Port" ->
           Ok(IF isPathnameStart(p) THEN changeState(p, "Pathname", 0)
              ELSE IF isSearchPrefix(p) THEN changeState(p, "Search", 1)
              ELSE IF isHashPrefix(p) THEN changeState(p, "Hash", 1)
              ELSE p)
      [] p.state = "Pathname" ->
           Ok(IF isSearchPrefix(p) THEN changeState(p, "Search", 1)
              ELSE IF isHashPrefix(p) THEN changeState(p, "Hash", 1)
              ELSE p)
      [] p.state = "Search" ->
           Ok(IF isHashPrefix(p) THEN changeState(p, "Hash", 1) ELSE p)
      [] p.state = "Hash" -> Ok(p)
      [] OTHER -> Fail("panic")

advance(p) == [p EXCEPT !.tokenIndex = p.tokenIndex + p.tokenIncrement]

\* the End token in the init state: the parser q was rewound
endInInitState(q) ==
    IF isHashPrefix(q) THEN changeState(q, "Hash", 1)
    ELSE IF isSearchPrefix(q) THEN changeState(q, "Search", 1)
    ELSE changeState(q, "Pathname", 0)

\* the end of an iteration whose switch on the state ended as r
loopAfterStep(r) ==
    IF r.err # "" THEN r ELSE Ok(advance(r.val))

\* the iteration that runs the steps of the state inside a group too
loopIterationInsideGroups(p) ==
    CASE At(p.tokenList, p.tokenIndex).tType = "End" /\ p.state = "Init" ->
           Ok(advance(endInInitState(rewind(p))))
      [] At(p.tokenList, p.tokenIndex).tType = "End" /\ p.state = "Authority" ->
           Ok(advance(rewindAndSetState(p, "Hostname")))
      [] At(p.tokenList, p.tokenIndex).tType = "End" -> Ok(changeState(p, "Done", 0))
      [] isGroupOpen(p) -> Ok(advance([p EXCEPT !.groupDepth = @ + 1]))
      [] p.groupDepth > 0 /\ isGroupClose(p) ->
           loopAfterStep(parserStateStep([p EXCEPT !.groupDepth = @ - 1]))
      [] OTHER -> loopAfterStep(parserStateStep(p))

\* the iteration that closes a group at any depth
loopIterationClosingAtAnyDepth(p) ==
    CASE At(p.tokenList, p.tokenIndex).tType = "End" /\ p.state = "Init" ->
           Ok(advance(endInInitState(rewind(p))))
      [] At(p.tokenList, p.tokenIndex).tType = "End" /\ p.state = "Authority" ->
           Ok(advance(rewindAndSetState(p, "Hostname")))
      [] At(p.tokenList, p.tokenIndex).tType = "End" -> Ok(changeState(p, "Done", 0))
      [] isGroupOpen(p) -> Ok(advance([p EXCEPT !.groupDepth = @ + 1]))
      [] isGroupClose(p) -> loopAfterStep(parserStateStep([p EXCEPT !.groupDepth = @ - 1]))
      [] p.groupDepth > 0 -> Ok(advance(p))
      [] OTHER -> loopAfterStep(parserStateStep(p))

\* one iteration of the loop; tokenIncrement of p is 1.  val is the parser
\* at the end of the iteration, in the state "Done" after the break
loopIteration(p) ==
    CASE At(p.tokenList, p.tokenIndex).tType = "End" /\ p.state = "Init" ->
           Ok(advance(endInInitState(rewind(p))))
      [] At(p.tokenList, p.tokenIndex).tType = "End" /\ p.state = "Authority" ->
           Ok(advance(rewindAndSetState(p, "Hostname")))
      [] At(p.tokenList, p.tokenIndex).tType = "End" -> Ok(changeState(p, "Done", 0))
      [] isGroupOpen(p) -> Ok(advance([p EXCEPT !.groupDepth = @ + 1]))
      [] p.groupDepth > 0 /\ ~isGroupClose(p) -> Ok(advance(p))
      [] p.groupDepth > 0 -> loopAfterStep(parserStateStep([p EXCEPT !.groupDepth = @ - 1]))
      [] OTHER -> loopAfterStep(parserStateStep(p))

\* the loop is left after the iteration that ended as r: an error was
\* returned, the break was taken, or the token list is exhausted
loopLeft(r) ==
    r.err # "" \/ r.val.state = "Done" \/ ~(r.val.tokenIndex < Len(r.val.tokenList))

\* the next iteration after the one that ended as r, if there is one
constructorNext(r) ==
    IF loopLeft(r) THEN r ELSE loopIteration([r.val EXCEPT !.tokenIncrement = 1])

\* the loop over the token list from the end of an iteration r on; val
\* is the parser when the loop is left
RECURSIVE constructorLoop(_)
constructorLoop(r) ==
    IF loopLeft(r) THEN r ELSE constructorLoop(constructorNext(r))

\* the init of the parser the loop left as r, with the port defaulted
constructorResult(r) ==
    IF r.err # "" THEN Fail(r.err)
    ELSE IF ~IsNil(r.val.result.Hostname) /\ IsNil(r.val.result.Port)
    THEN Ok([r.val.result EXCEPT !.Port = Some(<<>>)])
    ELSE Ok(r.val.result)

\* parseConstructorString once the input is tokenized (tl is the result)
parseConstructorTokens(input, tl) ==
    IF tl.err # "" THEN Fail(tl.err)
    ELSE constructorResult(constructorLoop(Ok(newConstructorTypeParser(input, tl.val))))

\* val is the URLPatternInit the parser produced
parseConstructorString(input) ==
    parseConstructorTokens(input, tokenize(input, tokenizePolicyLenient))


\* ------------------------------------------------------------------------
\* URLPattern: construction
\* ------------------------------------------------------------------------

star == <<"*">>

\* processedInit with "*" for every absent component
withStars(processedInit) ==
    [processedInit EXCEPT
     !.Protocol = IF IsNil(@) THEN Some(star) ELSE @,
     !.Username = IF IsNil(@) THEN Some(star) ELSE @,
     !.Password = IF IsNil(@) THEN Some(star) ELSE @,
     !.Hostname = IF IsNil(@) THEN Some(star) ELSE @,
     !.Port = IF IsNil(@) THEN Some(star) ELSE @,
     !.Pathname = IF IsNil(@) THEN Some(star) ELSE @,
     !.Search = IF IsNil(@) THEN Some(star) ELSE @,
     !.Hash = IF IsNil(@) THEN Some(star) ELSE @]

\* the loop over specialSchemeList that empties a default port
\* the default-port loop of the revision of src/urlpattern.go:133-139,
\* which assigns the empty string to the protocol instead of the port
withoutDefaultPortClearingProtocol(processedInit) ==
    IF \E i \in 1..Len(specialSchemeList) :
           /\ Get(processedInit.Protocol) = specialSchemeList[i]
           /\ Get(processedInit.Port) = DefaultPorts(specialSchemeList[i])
    THEN [processedInit EXCEPT !.Protocol = Some(<<>>)]
    ELSE processedInit

withoutDefaultPort(processedInit) ==
    IF \E i \in 1..Len(specialSchemeList) :
           /\ Get(processedInit.Protocol) = specialSchemeList[i]
           /\ Get(processedInit.Port) = DefaultPorts(specialSchemeList[i])
    THEN [processedInit EXCEPT !.Port = Some(<<>>)]
    ELSE processedInit

componentKeys ==
    <<"protocol", "username", "password", "hostname", "port", "pathname", "search", "hash">>

\* the zero value URLPattern{}
EmptyURLPattern ==
    [k \in {componentKeys[i] : i \in 1..Len(componentKeys)} |->
        Component(<<>>, [node |-> <<"cat", <<>>>>, numSubexp |-> 0], <<>>, FALSE)]

\* The calls of compileComponent in URLPatternInit.New, by the i-th
\* component: the pattern string, the encoding callback and the options.
\* u is the pattern under construction, of which the protocol is read.
componentInput(processedInit, i) == Get(processedInit[ComponentNames[i]])

componentCallback(processedInit, u, i) ==
    CASE componentKeys[i] = "protocol" -> "canonicalizeProtocol"
      [] componentKeys[i] = "username" -> "canonicalizeUsername"
      [] componentKeys[i] = "password" -> "canonicalizePassword"
      [] componentKeys[i] = "hostname" ->
           IF hostnamePatternIsIPv6Address(Get(processedInit.Hostname))
           THEN "canonicalizeIPv6Hostname"
           ELSE IF protocolComponentMatchesSpecialScheme(u.protocol)
                   \/ Get(processedInit.Protocol) = star
           THEN "canonicalizeDomainName"
           ELSE "canonicalizeHostname"
      [] componentKeys[i] = "port" -> "canonicalizePort"
      [] componentKeys[i] = "pathname" ->
           IF protocolComponentMatchesSpecialScheme(u.protocol)
           THEN "canonicalizePathname"
           ELSE "canonicalizeOpaquePathname"
      [] componentKeys[i] = "search" -> "canonicalizeSearch"
      [] OTHER -> "canonicalizeHash"

\* options that give the pathname the delimiter and the prefix '/' under
\* every protocol
componentOptionsOfPathnameOnly(u, opt, i) ==
    CASE componentKeys[i] \in {"protocol", "username", "password", "port"} ->
           Options(NUL, NUL, FALSE)
      [] componentKeys[i] = "hostname" -> Options(".", NUL, FALSE)
      [] componentKeys[i] = "pathname" -> Options("/", "/", opt.IgnoreCase)
      [] OTHER -> Options(NUL, NUL, opt.IgnoreCase)

\* options that give every component the ignoreCase of opt
componentOptionsIgnoringCaseEverywhere(u, opt, i) ==
    CASE componentKeys[i] \in {"protocol", "username", "password", "port"} ->
           Options(NUL, NUL, opt.IgnoreCase)
      [] componentKeys[i] = "hostname" -> Options(".", NUL, opt.IgnoreCase)
      [] componentKeys[i] = "pathname" ->
           IF protocolComponentMatchesSpecialScheme(u.protocol)
           THEN Options("/", "/", opt.IgnoreCase)
           ELSE Options(NUL, NUL, opt.IgnoreCase)
      [] OTHER -> Options(NUL, NUL, opt.IgnoreCase)

componentOptions(u, opt, i) ==
    CASE componentKeys[i] \in {"protocol", "username", "password", "port"} ->
           Options(NUL, NUL, FALSE)
      [] componentKeys[i] = "hostname" -> Options(".", NUL, FALSE)
      [] componentKeys[i] = "pathname" ->
           IF protocolComponentMatchesSpecialScheme(u.protocol)
           THEN Options("/", "/", opt.IgnoreCase)
           ELSE Options(NUL, NUL, opt.IgnoreCase)
      [] OTHER -> Options(NUL, NUL, opt.IgnoreCase)

\* u with the component named key set to the compiled component c, or
\* the error of c
setComponent(u, key, c) ==
    IF c.err # "" THEN Fail(c.err) ELSE Ok([u EXCEPT ![key] = c.val])

\* the calls of compileComponent from the i-th on; r is the pattern so
\* far or the error returned
RECURSIVE compileFrom(_, _, _, _)
compileFrom(processedInit, opt, r, i) ==
    IF i > Len(componentKeys) \/ r.err # "" THEN r
    ELSE compileFrom(processedInit, opt,
                     setComponent(r.val, componentKeys[i],
                                  compileComponent(componentInput(processedInit, i),
                                                   componentCallback(processedInit, r.val, i),
                                                   componentOptions(r.val, opt, i))),
                     i + 1)

\* URLPatternInit.New once init is processed (processed is the result)
newFromProcessed(processed, opt) ==
    IF processed.err # "" THEN Fail(processed.err)
    ELSE compileFrom(withoutDefaultPort(withStars(processed.val)), opt,
                     Ok(EmptyURLPattern), 1)

\* (init *URLPatternInit) New(opt): val is the URLPattern
InitNew(init, opt) == newFromProcessed(process(init, "pattern", EmptyInit), opt)

\* New of the revision of src/urlpattern.go:83-98, which reads
\* *init.Protocol: a nil protocol without a base URL panics
newFromInitDeref(init, baseURL, options) ==
    IF init.err # "" THEN Fail(init.err)
    ELSE IF IsNil(baseURL) /\ IsNil(init.val.Protocol) THEN Fail("panic")
    ELSE IF IsNil(baseURL) /\ Get(init.val.Protocol) = <<>> THEN Fail("NoBaseURLError")
    ELSE IF ~IsNil(baseURL) THEN InitNew([init.val EXCEPT !.BaseURL = baseURL], options)
    ELSE InitNew(init.val, options)

\* New without the test for a base URL or a protocol
newFromInitUnchecked(init, baseURL, options) ==
    IF init.err # "" THEN Fail(init.err)
    ELSE IF ~IsNil(baseURL) THEN InitNew([init.val EXCEPT !.BaseURL = baseURL], options)
    ELSE InitNew(init.val, options)

\* New once the constructor string is parsed (init is the result)
newFromInit(init, baseURL, options) ==
    IF init.err # "" THEN Fail(init.err)
    ELSE IF IsNil(baseURL) /\ IsNil(init.val.Protocol) THEN Fail("NoBaseURLError")
    ELSE IF ~IsNil(baseURL) THEN InitNew([init.val EXCEPT !.BaseURL = baseURL], options)
    ELSE InitNew(init.val, options)

\* New(input, baseURL, options); baseURL is None for a nil pointer
New(input, baseURL, options) == newFromInit(parseConstructorString(input), baseURL, options)

\* ------------------------------------------------------------------------
\* URLPattern: matching
\* ------------------------------------------------------------------------

\* An outcome of Exec and ExecInit: kind is "nil", "result" or "panic"
NilResult == [kind |-> "nil", result |-> <<>>]

PanicResult == [kind |-> "panic", result |-> <<>>]

\* the groups map after the loop over execResult[1..]: the pairs
\* <<name, value>>, a later index replacing an earlier one of the same name
groupsOf(groupNameList, execResult) ==
    {<<groupNameList[i], execResult[i + 1]>> : i \in
        {i \in 1..(Len(execResult) - 1) :
            \A j \in (i + 1)..(Len(execResult) - 1) : groupNameList[j] # groupNameList[i]}}

\* the component result that keeps the groups of one empty capture of an
\* empty match
createComponentMatchResultKeepingEmpty(component, input, execResult) ==
    IF Len(execResult) - 1 = 0
    THEN Ok([Input |-> input, Groups |-> {}])
    ELSE IF Len(execResult) - 1 > Len(component.groupNameList) THEN Fail("panic")
    ELSE Ok([Input |-> input, Groups |-> groupsOf(component.groupNameList, execResult)])

\* val is the URLPatternComponentResult; err is "panic" when the loop
\* indexes groupNameList out of range
createComponentMatchResult(component, input, execResult) ==
    IF Len(execResult) - 1 = 0
       \/ (Len(execResult) = 2 /\ execResult[1] = <<>> /\ execResult[2] = <<>>)
    THEN Ok([Input |-> input, Groups |-> {}])
    ELSE IF Len(execResult) - 1 > Len(component.groupNameList) THEN Fail("panic")
    ELSE Ok([Input |-> input, Groups |-> groupsOf(component.groupNameList, execResult)])

\* the URLPatternResult of the eight component results r, or the panic
\* of one of them
patternResult(r) ==
    IF \E k \in DOMAIN r : r[k].err # "" THEN PanicResult
    ELSE [kind |-> "result", result |-> [k \in DOMAIN r |-> r[k].val]]

\* match once the eight expressions were run (execResults)
matchResult(u, values, execResults) ==
    IF IsNil(execResults.protocol) \/ IsNil(execResults.username)
       \/ IsNil(execResults.password) \/ IsNil(execResults.hostname)
       \/ IsNil(execResults.port) \/ IsNil(execResults.pathname)
       \/ IsNil(execResults.search) \/ IsNil(execResults.hash)
    THEN NilResult
    ELSE patternResult([k \in DOMAIN u |->
                           createComponentMatchResult(u[k], values[k], Get(execResults[k]))])

\* u.match(protocol, ..., hash): values is the record of the eight strings
match(u, values) ==
    matchResult(u, values,
                [k \in DOMAIN u |-> FindStringSubmatch(u[k].regularExpression, values[k])])

valuesOfUrl(ur) ==
    [protocol |-> ur.Scheme, username |-> ur.Username, password |-> ur.Password,
     hostname |-> ur.Hostname, port |-> ur.Port, pathname |-> ur.Pathname,
     search |-> ur.Query, hash |-> ur.Fragment]

\* the eight strings of the parsed input ur, or its error
parsedComponents(ur) ==
    IF ur.err # "" THEN Fail(ur.err) ELSE Ok(valuesOfUrl(ur.val))

\* the input parsed against the parsed base URL baseURL, or its error
parseWithBase(input, baseURL) ==
    IF baseURL.err # "" THEN Fail(baseURL.err)
    ELSE parsedComponents(BasicParser(input, Some(baseURL.val)))

\* the part of Exec before the call of match: val is the record of the
\* eight component strings of the parsed input
execComponents(input, baseURLString) ==
    IF baseURLString # <<>> THEN parseWithBase(input, urlParse(baseURLString))
    ELSE parsedComponents(BasicParser(input, None))

\* the end of Exec and ExecInit: nil when the input was rejected, else
\* the result of match on the components c
matchComponents(u, c) ==
    IF c.err # "" THEN NilResult ELSE match(u, c.val)

\* u.Exec(input, baseURLString)
Exec(u, input, baseURLString) == matchComponents(u, execComponents(input, baseURLString))

EmptyStrings ==
    URLPatternInit(Some(<<>>), Some(<<>>), Some(<<>>), Some(<<>>), Some(<<>>), Some(<<>>),
                   Some(<<>>), Some(<<>>), None)

\* the eight strings of the processed init applyResult, or its error
appliedComponents(applyResult) ==
    IF applyResult.err # "" THEN Fail(applyResult.err)
    ELSE Ok([protocol |-> Get(applyResult.val.Protocol),
             username |-> Get(applyResult.val.Username),
             password |-> Get(applyResult.val.Password),
             hostname |-> Get(applyResult.val.Hostname),
             port |-> Get(applyResult.val.Port),
             pathname |-> Get(applyResult.val.Pathname),
             search |-> Get(applyResult.val.Search),
             hash |-> Get(applyResult.val.Hash)])

\* the part of ExecInit before the call of match
execInitComponents(input) == appliedComponents(process(input, "url", EmptyStrings))

\* u.ExecInit(input)
ExecInit(u, input) == matchComponents(u, execInitComponents(input))

\* the outcome of kind "bool" that is true for a nil result
asBoolOfNil(r) ==
    IF r.kind = "panic" THEN r ELSE [kind |-> "bool", result |-> r.kind = "nil"]

\* u.Test and u.TestInit: the outcome of kind "bool", or the panic
asBool(r) ==
    IF r.kind = "panic" THEN r ELSE [kind |-> "bool", result |-> r.kind # "nil"]

Test(u, input, baseURL) == asBool(Exec(u, input, baseURL))

TestInit(u, input) == asBool(ExecInit(u, input))

\* u.HasRegexpGroups()
HasRegexpGroups(u) == \E k \in DOMAIN u : u[k].hasRegexpGroups

\* the accessors u.Protocol() ... u.Hash()
Protocol(u) == u.protocol.patternString

Username(u) == u.username.patternString

Password(u) == u.password.patternString

Hostname(u) == u.hostname.patternString

Port(u) == u.port.patternString

Pathname(u) == u.pathname.patternString

Search(u) == u.search.patternString

Hash(u) == u.hash.patternString

\* ------------------------------------------------------------------------
\* The state machine: a caller constructs a URLPattern (New or
\* URLPatternInit.New) and then calls Exec, ExecInit, Test or TestInit on
\* it.  phase is "start" before the constructor call, "built" when it
\* returned a pattern, "failed" when it returned an error, "hung" when it
\* never returns, "matched" when the call on the pattern returned and
\* "panicked" when it panicked.  ctorArgs and execArgs are the arguments of
\* the calls, matchArgs the eight strings handed to match (None when match
\* was not called), outcome the value the call on the pattern returned.
\* ------------------------------------------------------------------------

NoArgs == [kind |-> "none"]

NoOutcome == [kind |-> "none", result |-> <<>>]

Init ==
    /\ phase = "start"
    /\ ctorArgs = NoArgs
    /\ urlPattern = None
    /\ newError = ""
    /\ execArgs = NoArgs
    /\ matchArgs = None
    /\ outcome = NoOutcome

\* the state after a constructor call that ended as r
Constructed(args, r) ==
    /\ ctorArgs' = args
    /\ phase' = IF r.err = "" THEN "built" ELSE IF r.err = "hang" THEN "hung" ELSE "failed"
    /\ urlPattern' = IF r.err = "" THEN Some(r.val) ELSE None
    /\ newError' = r.err
    /\ UNCHANGED <<execArgs, matchArgs, outcome>>

\* New(input, baseURL, options)
CallNew(inputs, baseURLs, optionsSet) ==
    /\ phase = "start"
    /\ \E input \in inputs, baseURL \in baseURLs, options \in optionsSet :
           Constructed([kind |-> "New", input |-> input, baseURL |-> baseURL,
                        options |-> options],
                       New(input, baseURL, options))

\* init.New(options)
CallInitNew(inits, optionsSet) ==
    /\ phase = "start"
    /\ \E init \in inits, options \in optionsSet :
           Constructed([kind |-> "InitNew", init |-> init, options |-> options],
                       InitNew(init, options))

\* the state after a call on the pattern with components c that ended as r
Called(args, c, r) ==
    /\ execArgs' = args
    /\ matchArgs' = IF c.err = "" THEN Some(c.val) ELSE None
    /\ outcome' = r
    /\ phase' = IF r.kind = "panic" THEN "panicked" ELSE "matched"
    /\ UNCHANGED <<ctorArgs, urlPattern, newError>>

CallExec(inputs, baseURLs) ==
    /\ phase = "built"
    /\ \E input \in inputs, baseURL \in baseURLs :
           Called([kind |-> "Exec", input |-> input, baseURL |-> baseURL],
                  execComponents(input, baseURL),
                  Exec(Get(urlPattern), input, baseURL))

CallTest(inputs, baseURLs) ==
    /\ phase = "built"
    /\ \E input \in inputs, baseURL \in baseURLs :
           Called([kind |-> "Test", input |-> input, baseURL |-> baseURL],
                  execComponents(input, baseURL),
                  Test(Get(urlPattern), input, baseURL))

CallExecInit(inits) ==
    /\ phase = "built"
    /\ \E init \in inits :
           Called([kind |-> "ExecInit", init |-> init],
                  execInitComponents(init),
                  ExecInit(Get(urlPattern), init))

CallTestInit(inits) ==
    /\ phase = "built"
    /\ \E init \in inits :
           Called([kind |-> "TestInit", init |-> init],
                  execInitComponents(init),
                  TestInit(Get(urlPattern), init))

\* ------------------------------------------------------------------------
\* Inputs
\* ------------------------------------------------------------------------

\* the concatenations of at most n members of pieces
RECURSIVE PieceStrings(_, _)
PieceStrings(pieces, n) ==
    IF n = 0 THEN {<<>>}
    ELSE LET shorter == PieceStrings(pieces, n - 1)
         IN  shorter \cup {s \o p : s \in shorter, p \in pieces}

\* the inits that set exactly the component named f, to a member of values
InitWith(init, f, v) ==
    CASE f = "Protocol" -> [init EXCEPT !.Protocol = Some(v)]
      [] f = "Username" -> [init EXCEPT !.Username = Some(v)]
      [] f = "Password" -> [init EXCEPT !.Password = Some(v)]
      [] f = "Hostname" -> [init EXCEPT !.Hostname = Some(v)]
      [] f = "Port" -> [init EXCEPT !.Port = Some(v)]
      [] f = "Pathname" -> [init EXCEPT !.Pathname = Some(v)]
      [] f = "Search" -> [init EXCEPT !.Search = Some(v)]
      [] f = "Hash" -> [init EXCEPT !.Hash = Some(v)]
      [] OTHER -> [init EXCEPT !.BaseURL = Some(v)]

OptionsSet == {[IgnoreCase |-> FALSE], [IgnoreCase |-> TRUE]}


\* the URL of the base URL argument of the constructor calls
exampleBase == <<"h", "t", "t", "p", "s", ":", "/", "/", "h", ".", "c", "/", "a", "/", "b">>

\* what is not a URL: the parser rejects it
notAUrl == <<"/", "b">>

\* a base URL of which the path is opaque: data:a/b
opaqueBase == <<"d", "a", "t", "a", ":", "a", "/", "b">>

\* a base URL with every component: https://u:p@h.c:8080/a+/b?q#f
fullBase ==
    <<"h", "t", "t", "p", "s", ":", "/", "/", "u", ":", "p", "@", "h", ".", "c", ":",
      "8", "0", "8", "0", "/", "a", "+", "/", "b", "?", "q", "#", "f">>

\* ------------------------------------------------------------------------
\* Spec: construction from pattern strings and from inits, then one call
\* on the pattern.
\* ------------------------------------------------------------------------

MaxPieces == 3

PatternPieces ==
    {<<"h", "t", "t", "p", "s">>, <<"d", "a", "t", "a">>, <<":">>,
     <<"/", "/", "h", ".", "c">>, <<"/", "a">>, <<"*">>, <<"(">>, <<")">>, <<"{">>,
     <<"}">>, <<"\\">>}

\* the pattern strings of the documentation and of the tests
ExamplePatterns ==
    {<<"d", "a", "t", "a", ":", "f", "o", "o", "*">>,
     <<"d", "a", "t", "a", "\\", ":", "f", "o", "o", "*">>,
     <<"h", "t", "t", "p", "s", ":", "/", "/", "e", "x", "a", "m", "p", "l", "e", ".", "c", "o", "m", ":", "4", "4", "3", "/">>,
     <<"h", "t", "t", "p", "s", ":", "/", "a", "#", "#", "#", "a">>,
     <<"d", "a", "t", "a", "\\", ":", "{", "/", "*", "}">>}

PatternInputs == PieceStrings(PatternPieces, MaxPieces) \cup ExamplePatterns

BaseURLs == {None, Some(exampleBase)}

\* the values of a component of an init
\* a regexp group of which the value holds a named group: ((?P<x>a))
namedGroupValue == <<"(", "(", "?", "P", "<", "x", ">", "a", ")", ")">>

InitValues ==
    {<<>>, <<"*">>, <<"a">>, <<":", "n">>, <<"(">>, <<"{">>, <<"\\">>, <<"{", "\\">>,
     <<"(", "a">>, <<"{", "a", "}">>, <<"(", "a", ")">>, namedGroupValue, <<BADCP>>}

ProtocolValues ==
    {<<"h", "t", "t", "p", "s">>, <<"h", "t", "t", "p">>, <<"f", "t", "p">>,
     <<"w", "s">>, <<"w", "s", "s">>, <<"d", "a", "t", "a">>}

PortValues ==
    {<<"4", "4", "3">>, <<"8", "0">>, <<"2", "1">>, <<"8", "0", "8", "0">>}

PatternInits ==
    {EmptyInit}
    \cup {InitWith(EmptyInit, ComponentNames[i], v) : i \in 1..8, v \in InitValues}
    \cup {InitWith(InitWith(EmptyInit, "Protocol", s), "Port", p) :
              s \in ProtocolValues, p \in PortValues}
    \cup {InitWith(InitWith(EmptyInit, "BaseURL", b), "Pathname", v) :
              b \in {exampleBase, notAUrl}, v \in InitValues}
    \cup {InitWith(EmptyInit, "BaseURL", fullBase)}
    \cup {InitWith(InitWith(EmptyInit, "Protocol", s), "Pathname", <<"/", ":", "n">>) :
              s \in {<<"h", "t", "t", "p", "s">>, <<"d", "a", "t", "a">>}}
    \cup {InitWith(InitWith(EmptyInit, "Hostname", <<"a">>), "Hash", <<"a">>)}
    \cup {InitWith(EmptyInit, "Protocol", <<"a", ":">>), InitWith(EmptyInit, "Search", <<"?", "?">>),
          InitWith(EmptyInit, "Search", <<"?", "a">>), InitWith(EmptyInit, "Hash", <<"#", "a">>)}
    \cup {InitWith(InitWith(EmptyInit, "BaseURL", opaqueBase), "Pathname", v) :
              v \in {<<"c">>, <<"/", "c">>}}
    \cup {InitWith(InitWith(EmptyInit, "BaseURL", fullBase), ComponentNames[i], <<"*">>) :
              i \in 1..8}

UrlInputs ==
    {<<"h", "t", "t", "p", "s", ":", "/", "/", "h", ".", "c", "/", "a", "#", "a">>,
     <<"d", "a", "t", "a", ":", "f", "o", "o", "b", "a", "r">>,
     notAUrl}

\* the base URL strings of Exec and Test; "" stands for no base URL
UrlBases == {<<>>, exampleBase, notAUrl}

UrlInits ==
    {EmptyInit, InitWith(EmptyInit, "Hash", <<"a">>), InitWith(EmptyInit, "BaseURL", notAUrl),
     InitWith(EmptyInit, "Protocol", <<"a", ":">>), InitWith(EmptyInit, "Search", <<"?", "a">>),
     InitWith(EmptyInit, "Hash", <<"#", "a">>),
     InitWith(InitWith(EmptyInit, "BaseURL", fullBase), "Pathname", <<"c">>),
     InitWith(InitWith(EmptyInit, "BaseURL", fullBase), "Pathname", <<"{", "/", "c">>),
     InitWith(InitWith(EmptyInit, "BaseURL", exampleBase), "Pathname", <<"/", "c">>),
     InitWith(InitWith(EmptyInit, "BaseURL", opaqueBase), "Pathname", <<"c">>)}

Next ==
    \/ CallNew(PatternInputs, BaseURLs, {[IgnoreCase |-> FALSE]})
    \/ CallNew(ExamplePatterns, {None}, {[IgnoreCase |-> TRUE]})
    \/ CallInitNew(PatternInits, OptionsSet)
    \/ CallExec(UrlInputs, UrlBases)
    \/ CallTest(UrlInputs, UrlBases)
    \/ CallExecInit(UrlInits)
    \/ CallTestInit(UrlInits)

Spec == Init /\ [][Next]_vars

\* ------------------------------------------------------------------------
\* SpecParse: one call of parsePatternString.  phase is "parsed" when it
\* returned a part list (outcome holds it), "failed" when it returned an
\* error and "hung" when it never returns.
\* ------------------------------------------------------------------------

\* the state after a call of parsePatternString that ended as r
Parsed(args, r) ==
    /\ ctorArgs' = args
    /\ phase' = IF r.err = "" THEN "parsed" ELSE IF r.err = "hang" THEN "hung" ELSE "failed"
    /\ newError' = r.err
    /\ outcome' = [kind |-> "parts", result |-> r.val]
    /\ UNCHANGED <<urlPattern, execArgs, matchArgs>>

\* parsePatternString(input, options, encodingCallback)
CallParsePatternString(inputs, calls) ==
    /\ phase = "start"
    /\ \E input \in inputs, call \in calls :
           Parsed([kind |-> "parsePatternString", input |-> input, call |-> call],
                  parsePatternString(input, call.options, call.encodingCallback))

MaxParsePieces == 4

ParsePieces ==
    {<<":", "n">>, <<":", "m">>, <<"(", "a", ")">>, <<"*">>, <<"{">>, <<"}">>, <<"a">>,
     <<"/">>, <<"?">>}

ParseInputs == PieceStrings(ParsePieces, MaxParsePieces)

\* the options and callbacks of the pathname and of the search component
ParseCalls ==
    {[options |-> Options("/", "/", FALSE), encodingCallback |-> "canonicalizePathname"],
     [options |-> Options(NUL, NUL, FALSE), encodingCallback |-> "canonicalizeSearch"]}

MaxRoundTripPieces == 4

\* the pieces of the pattern strings parsed with the identity callback
RoundTripPieces ==
    {<<":", "n">>, <<"{", ":", "n">>, <<"(", "a", ")">>, <<"(", ".", "*", ")">>,
     <<"(", "[", "^", "\\", "/", "]", "+", "?", ")">>, <<"*">>, <<"{">>, <<"}">>, <<"a">>,
     <<"/">>, <<"?">>, <<"+">>, <<"\\">>}

\* a pattern string with an empty group that has a modifier between two
\* fixed texts
slashEmptyGroupSlash == <<"/", "{", "}", "*", "/">>

RoundTripInputs ==
    PieceStrings(RoundTripPieces, MaxRoundTripPieces)
        \cup {slashEmptyGroupSlash, <<"a", "{", "}", "?", "a">>}

\* the options of the pathname and of the search component, with the
\* callback that returns its argument
IdentityCalls ==
    {[options |-> Options("/", "/", FALSE), encodingCallback |-> "identity"],
     [options |-> Options(NUL, NUL, FALSE), encodingCallback |-> "identity"]}

NextParse ==
    \/ CallParsePatternString(ParseInputs, ParseCalls)
    \/ CallParsePatternString(RoundTripInputs, IdentityCalls)

SpecParse == Init /\ [][NextParse]_vars

\* ------------------------------------------------------------------------
\* SpecTokenize: one call of tokenize.  phase is "tokenized" when it
\* returned a nil error (outcome holds the token list), "failed" when it
\* returned an error and "hung" when it never returns.
\* ------------------------------------------------------------------------

\* the state after a call of tokenize that ended as r
Tokenized(args, r) ==
    /\ ctorArgs' = args
    /\ phase' = IF r.err = "" THEN "tokenized" ELSE IF r.err = "hang" THEN "hung" ELSE "failed"
    /\ newError' = r.err
    /\ outcome' = [kind |-> "tokens", result |-> r.val]
    /\ UNCHANGED <<urlPattern, execArgs, matchArgs>>

\* tokenize(input, policy)
CallTokenize(inputs, policies) ==
    /\ phase = "start"
    /\ \E input \in inputs, policy \in policies :
           Tokenized([kind |-> "tokenize", input |-> input, policy |-> policy],
                     tokenize(input, policy))

MaxTokenizePieces == 4

TokenizePieces ==
    {<<":">>, <<"n">>, <<"(">>, <<")">>, <<"?">>, <<"\\">>, <<"*">>, <<"{">>, <<"}">>, <<BADCP>>}

TokenizeInputs == PieceStrings(TokenizePieces, MaxTokenizePieces)

NextTokenize == CallTokenize(TokenizeInputs, {tokenizePolicyLenient, tokenizePolicyStrict})

SpecTokenize == Init /\ [][NextTokenize]_vars

\* ------------------------------------------------------------------------
\* SpecConstructor: one call of parseConstructorString, an iteration of
\* its loop at a time.  outcome.result is the parser; phase is "parsing"
\* when the loop goes on with another iteration, "returned" when the loop
\* was left and the init was returned (outcome.init), "failed" when an
\* error was returned.
\* ------------------------------------------------------------------------

\* the init parseConstructorString returns when the loop is left as r
returnedInit(r) ==
    IF r.err = "" /\ loopLeft(r) THEN Some(constructorResult(r).val) ELSE None

\* the state of the call args in which the parser is as r, at the test of
\* the loop
ParserAt(args, r) ==
    /\ ctorArgs' = args
    /\ phase' = IF r.err = "hang" THEN "hung"
                ELSE IF r.err # "" THEN "failed"
                ELSE IF loopLeft(r) THEN "returned" ELSE "parsing"
    /\ newError' = r.err
    /\ outcome' = [kind |-> "parser", result |-> r.val, init |-> returnedInit(r)]
    /\ UNCHANGED <<urlPattern, execArgs, matchArgs>>

\* the parser on the token list tl of input, or the error of tokenize
parserOn(input, tl) ==
    IF tl.err # "" THEN Fail(tl.err) ELSE Ok(newConstructorTypeParser(input, tl.val))

\* parseConstructorString(input) up to the first test of the loop
BeginParse(inputs) ==
    /\ phase = "start"
    /\ \E input \in inputs :
           ParserAt([kind |-> "parseConstructorString", input |-> input],
                    parserOn(input, tokenize(input, tokenizePolicyLenient)))

\* one iteration of the loop, and the return when it leaves the loop
Iterate ==
    /\ phase = "parsing"
    /\ ParserAt(ctorArgs, loopIteration([outcome.result EXCEPT !.tokenIncrement = 1]))

MaxConstructorPieces == 4

ConstructorPieces ==
    {<<"a">>, <<"h", "t", "t", "p", "s", ":">>, <<"/", "/">>, <<":">>, <<"/">>, <<"?">>, <<"#">>,
     <<"@">>, <<"[">>, <<"]">>, <<"{">>, <<"}">>, <<"*">>, <<"\\">>}

\* a constructor string with every component
fullConstructorString ==
    <<"h", "t", "t", "p", "s", ":", "/", "/", "a", ":", "a", "@", "[", ":", "]", ":", "a", "/",
      "a", "?", "a", "#", "a">>

ConstructorInputs ==
    PieceStrings(ConstructorPieces, MaxConstructorPieces) \cup {fullConstructorString}

NextConstructor ==
    \/ BeginParse(ConstructorInputs)
    \/ Iterate

SpecConstructor == Init /\ [][NextConstructor]_vars

\* ------------------------------------------------------------------------
\* SpecShared: goroutines call Exec, Test, ExecInit, TestInit and the
\* accessors on one compiled pattern, concurrently.  urlPattern is the
\* pattern they share and ctorArgs the constructor call that built it.
\* execArgs[g] is the call of goroutine g, with its position pc ("idle",
\* "called", "parsed" once the input is parsed into the local variables
\* protocol, ..., hash, "returned", "panicked") and the address ref of the
\* URLPatternResult that match allocated for it (0 when none);
\* matchArgs[g] holds the local variables of the call and outcome[g] what
\* it returned.  A panic ends the program: phase becomes "panicked" and
\* no goroutine takes another step.
\* ------------------------------------------------------------------------

NumGoroutines == 2

Goroutines == 1..NumGoroutines

\* the patterns that are shared
SharedInits ==
    {EmptyInit, InitWith(EmptyInit, "Hash", <<"a">>),
     InitWith(EmptyInit, "Pathname", <<"/", ":", "n">>),
     InitWith(EmptyInit, "Hash", namedGroupValue)}

SharedCalls ==
    {[kind |-> k, input |-> input, baseURL |-> baseURL] :
         k \in {"Exec", "Test"},
         input \in {<<"h", "t", "t", "p", "s", ":", "/", "/", "h", ".", "c", "/", "a", "#", "a">>,
                    notAUrl},
         baseURL \in {<<>>, exampleBase}}
    \cup {[kind |-> k, init |-> init] :
              k \in {"ExecInit", "TestInit"},
              init \in {EmptyInit, InitWith(EmptyInit, "Hash", <<"a">>)}}
    \cup {[kind |-> "Accessor", component |-> i] : i \in {6, 8}}

InitShared ==
    /\ phase = "built"
    /\ \E init \in SharedInits :
           /\ ctorArgs = [kind |-> "InitNew", init |-> init, options |-> [IgnoreCase |-> FALSE]]
           /\ urlPattern = Some(InitNew(init, [IgnoreCase |-> FALSE]).val)
    /\ newError = ""
    /\ execArgs = [g \in Goroutines |-> [call |-> NoArgs, pc |-> "idle", ref |-> 0]]
    /\ matchArgs = [g \in Goroutines |-> None]
    /\ outcome = [g \in Goroutines |-> NoOutcome]

\* the local variables protocol, ..., hash of the call of goroutine g
frameShared(locals, g) == locals[CHOOSE h \in DOMAIN locals : ~IsNil(locals[h])]

frame(locals, g) == locals[g]

\* the address of a URLPatternResult allocated now: one that no call holds
newResult(calls) ==
    CHOOSE a \in 1..(NumGoroutines + 1) : \A g \in DOMAIN calls : calls[g].ref # a

\* what the accessor of the i-th component returns
accessorResult(u, i) == [kind |-> "string", result |-> u[componentKeys[i]].patternString]

\* the part of the call before match: the eight component strings
componentsOfCall(call) ==
    IF call.kind \in {"Exec", "Test"} THEN execComponents(call.input, call.baseURL)
    ELSE execInitComponents(call.init)

\* what Exec and ExecInit return with the result r of match, and what
\* Test and TestInit make of it
returnedBy(call, r) == IF call.kind \in {"Test", "TestInit"} THEN asBool(r) ELSE r

\* goroutine g calls a method of the pattern
Begin(g, calls) ==
    /\ phase = "built"
    /\ execArgs[g].pc = "idle"
    /\ \E call \in calls :
           execArgs' = [execArgs EXCEPT ![g] = [call |-> call, pc |-> "called", ref |-> 0]]
    /\ UNCHANGED <<phase, ctorArgs, urlPattern, newError, matchArgs, outcome>>

\* an accessor returns the pattern string of its component
ReadAccessor(g) ==
    /\ phase = "built"
    /\ execArgs[g].pc = "called"
    /\ execArgs[g].call.kind = "Accessor"
    /\ outcome' = [outcome EXCEPT
                      ![g] = accessorResult(Get(urlPattern), execArgs[g].call.component)]
    /\ execArgs' = [execArgs EXCEPT ![g].pc = "returned"]
    /\ UNCHANGED <<phase, ctorArgs, urlPattern, newError, matchArgs>>

\* the state after the input of the call of g was parsed as c: nil or
\* false is returned on an error, else the local variables are set
InputParsed(g, c) ==
    /\ matchArgs' = [matchArgs EXCEPT ![g] = IF c.err = "" THEN Some(c.val) ELSE None]
    /\ execArgs' = [execArgs EXCEPT ![g].pc = IF c.err = "" THEN "parsed" ELSE "returned"]
    /\ outcome' = [outcome EXCEPT
                      ![g] = IF c.err = "" THEN @ ELSE returnedBy(execArgs[g].call, NilResult)]
    /\ UNCHANGED <<phase, ctorArgs, urlPattern, newError>>

\* Exec and ExecInit up to the call of match
ParseInput(g) ==
    /\ phase = "built"
    /\ execArgs[g].pc = "called"
    /\ execArgs[g].call.kind # "Accessor"
    /\ InputParsed(g, componentsOfCall(execArgs[g].call))

\* the state after match returned r to the call of g
Matched(g, r) ==
    /\ outcome' = [outcome EXCEPT ![g] = returnedBy(execArgs[g].call, r)]
    /\ execArgs' = [execArgs EXCEPT
                       ![g].pc = IF r.kind = "panic" THEN "panicked" ELSE "returned",
                       ![g].ref = IF r.kind = "result" THEN newResult(execArgs) ELSE 0]
    /\ phase' = IF r.kind = "panic" THEN "panicked" ELSE phase
    /\ UNCHANGED <<ctorArgs, urlPattern, newError, matchArgs>>

\* match on the local variables, and the return of the call
MatchParsed(g) ==
    /\ phase = "built"
    /\ execArgs[g].pc = "parsed"
    /\ Matched(g, match(Get(urlPattern), Get(frame(matchArgs, g))))

NextShared ==
    \E g \in Goroutines :
        \/ Begin(g, SharedCalls)
        \/ ReadAccessor(g)
        \/ ParseInput(g)
        \/ MatchParsed(g)

SpecShared == InitShared /\ [][NextShared]_vars

\* ------------------------------------------------------------------------
\* Properties of the constructors and of matching
\* ------------------------------------------------------------------------

\* the pattern the constructor call returned
builtPattern == Get(urlPattern)

\* a constructor call was made and did not return a pattern
constructionFailed == newError \notin {"", "hang"} /\ IsNil(urlPattern)

\* every one of the eight expressions of pattern matches its string
allComponentsMatch(pattern, values) ==
    \A i \in 1..Len(componentKeys) :
        MatchString(pattern[componentKeys[i]].regularExpression, values[componentKeys[i]])

\* the pattern strings of the documentation
dataScheme == <<"d", "a", "t", "a">>

dataFooStar == <<"d", "a", "t", "a", ":", "f", "o", "o", "*">>

dataEscapedFooStar == <<"d", "a", "t", "a", "\\", ":", "f", "o", "o", "*">>

dataSlashA == <<"d", "a", "t", "a", ":", "/", "a">>

exampleWithPort ==
    <<"h", "t", "t", "p", "s", ":", "/", "/", "e", "x", "a", "m", "p", "l", "e", ".", "c", "o", "m", ":", "4", "4", "3", "/">>

dataFoobar == <<"d", "a", "t", "a", ":", "f", "o", "o", "b", "a", "r">>

\* the init on which New calls URLPatternInit.New: the parsed init with
\* the base URL stored in it
initOfParsed(parsed, baseURL) ==
    IF parsed.err # "" THEN Fail(parsed.err)
    ELSE IF IsNil(baseURL) THEN Ok(parsed.val)
    ELSE Ok([parsed.val EXCEPT !.BaseURL = baseURL])

\* the init on which the constructor call args runs URLPatternInit.New
initOfCall(args) ==
    IF args.kind = "InitNew" THEN Ok(args.init)
    ELSE initOfParsed(parseConstructorString(args.input), args.baseURL)

defaultedOfProcessed(processed) ==
    IF processed.err # "" THEN Fail(processed.err) ELSE Ok(withStars(processed.val))

\* the processed init with "*" for every absent component, before the
\* default port is removed
defaultedOf(init) ==
    IF init.err # "" THEN Fail(init.err)
    ELSE defaultedOfProcessed(process(init.val, "pattern", EmptyInit))

\* the constructor call of the state ended as r
constructionEndedAs(r) ==
    /\ newError = r.err
    /\ urlPattern = IF r.err = "" THEN Some(r.val) ELSE None

\* the call args made on pattern
callOn(pattern, args) ==
    CASE args.kind = "Exec" -> Exec(pattern, args.input, args.baseURL)
      [] args.kind = "Test" -> Test(pattern, args.input, args.baseURL)
      [] args.kind = "ExecInit" -> ExecInit(pattern, args.init)
      [] args.kind = "TestInit" -> TestInit(pattern, args.init)
      [] OTHER -> NoOutcome

\* the number of '{' and '(' of s that are still open at its end; a
\* backslash escapes the next code point and a brace inside a regexp
\* group is text of the regexp
RECURSIVE openGroups(_, _, _, _)
openGroups(s, i, braces, parens) ==
    IF i > Len(s) THEN braces + parens
    ELSE IF s[i] = "\\" THEN openGroups(s, i + 2, braces, parens)
    ELSE IF s[i] = "(" THEN openGroups(s, i + 1, braces, parens + 1)
    ELSE IF s[i] = ")" /\ parens > 0 THEN openGroups(s, i + 1, braces, parens - 1)
    ELSE IF s[i] = "{" /\ parens = 0 THEN openGroups(s, i + 1, braces + 1, parens)
    ELSE IF s[i] = "}" /\ parens = 0 /\ braces > 0
    THEN openGroups(s, i + 1, braces - 1, parens)
    ELSE openGroups(s, i + 1, braces, parens)

hasUnmatchedOpen(s) == openGroups(s, 1, 0, 0) > 0

\* the pattern of the constructor call args has an unmatched '(' or '{'
callHasUnmatchedOpen(args) ==
    \/ args.kind = "New" /\ hasUnmatchedOpen(args.input)
    \/ /\ args.kind = "InitNew"
       /\ \E i \in 1..Len(ComponentNames) :
              /\ ~IsNil(args.init[ComponentNames[i]])
              /\ hasUnmatchedOpen(Get(args.init[ComponentNames[i]]))

\* the strict tokenizer reaches a tokenizing error on s
strictTokenizingError(s) == tokenize(s, tokenizePolicyStrict).err # ""

\* a component string handed to compileComponent has a tokenizing error
someComponentHasTokenizingError(defaulted) ==
    /\ defaulted.err = ""
    /\ \E i \in 1..Len(ComponentNames) :
           strictTokenizingError(componentInput(withoutDefaultPort(defaulted.val), i))

\* C1: whenever match is called by Exec or ExecInit on a compiled pattern
\* with eight component strings, it returns a result if all eight regular
\* expressions match their string, and nil as soon as one does not.
C1_ResultIffAllComponentsMatch ==
    (execArgs.kind \in {"Exec", "ExecInit"} /\ ~IsNil(matchArgs))
    => outcome.kind = IF allComponentsMatch(builtPattern, Get(matchArgs))
                      THEN "result" ELSE "nil"

\* C1: ExecInit called match with eight strings that all match, and no
\* result came back.
C1_AllMatchWithoutResult ==
    /\ execArgs.kind = "ExecInit"
    /\ ~IsNil(matchArgs)
    /\ allComponentsMatch(builtPattern, Get(matchArgs))
    /\ outcome.kind # "result"

\* C2: Exec, ExecInit, Test and TestInit never panic, and they return nil
\* or false when the input or the base URL does not parse or canonicalize.
C2_MatchingNeverPanics ==
    /\ phase # "panicked"
    /\ (phase = "matched" /\ IsNil(matchArgs))
       => outcome \in {NilResult, [kind |-> "bool", result |-> FALSE]}

\* C2: Exec or Test panicked on a compiled pattern.
C2_ExecPanicked ==
    /\ phase = "panicked"
    /\ execArgs.kind \in {"Exec", "Test"}
    /\ outcome = PanicResult

\* C3: every component of a compiled pattern has as many group names as
\* its regular expression has capture groups.
C3_NameListCoversCaptureGroups ==
    ~IsNil(urlPattern)
    => \A i \in 1..Len(componentKeys) :
           Len(builtPattern[componentKeys[i]].groupNameList)
               = builtPattern[componentKeys[i]].regularExpression.numSubexp

\* C3: a pattern was built of which a component has more capture groups
\* than group names.
C3_MoreGroupsThanNames ==
    /\ phase = "built"
    /\ \E i \in 1..Len(componentKeys) :
           Len(builtPattern[componentKeys[i]].groupNameList)
               < builtPattern[componentKeys[i]].regularExpression.numSubexp

\* C4: New fails with NoBaseURLError exactly when it has no base URL and
\* the constructor string parser returned an init without protocol; it
\* never panics on the absent protocol; in every other case in which the
\* parser succeeds it returns what URLPatternInit.New returns on the parsed
\* init with the base URL stored in it.
C4_NoBaseURLErrorExactly ==
    ctorArgs.kind = "New"
    => /\ newError # "panic"
       /\ newError = "NoBaseURLError"
          <=> /\ IsNil(ctorArgs.baseURL)
              /\ parseConstructorString(ctorArgs.input).err = ""
              /\ IsNil(parseConstructorString(ctorArgs.input).val.Protocol)
       /\ (parseConstructorString(ctorArgs.input).err = "" /\ newError # "NoBaseURLError")
          => constructionEndedAs(
                 InitNew(initOfParsed(parseConstructorString(ctorArgs.input),
                                      ctorArgs.baseURL).val,
                         ctorArgs.options))

\* C4: New was called without base URL on a pattern string without
\* protocol and failed with NoBaseURLError.
C4_FailedWithoutBaseAndProtocol ==
    /\ ctorArgs.kind = "New"
    /\ IsNil(ctorArgs.baseURL)
    /\ ctorArgs.input = <<"/", "a">>
    /\ phase = "failed"
    /\ newError = "NoBaseURLError"

\* C5 (as stated): New on the empty pattern string succeeds, and every
\* call on the pattern returns what it returns on the pattern of which the
\* eight components are all "*".
C5_EmptyStringIsAllWildcards ==
    (ctorArgs.kind = "New" /\ ctorArgs.input = <<>>)
    => /\ ~IsNil(urlPattern)
       /\ outcome = callOn(InitNew(EmptyInit, ctorArgs.options).val, execArgs)

\* C5 (amended): the init without any field compiles to the pattern of
\* which the eight components are all "*", which matches every input that
\* parses; New on the empty pattern string fails with NoBaseURLError
\* without a base URL, and with a base URL it returns the pattern of the
\* init that holds the empty pathname and the base URL, of which protocol,
\* hostname, port and pathname come from the base URL.
C5_EmptyInitIsAllWildcards ==
    /\ (ctorArgs.kind = "InitNew" /\ ctorArgs.init = EmptyInit)
       => /\ ~IsNil(urlPattern)
          /\ \A i \in 1..Len(componentKeys) :
                 builtPattern[componentKeys[i]].patternString = <<"*">>
          /\ execArgs.kind \in {"Exec", "ExecInit"}
             => (outcome.kind = "result" <=> ~IsNil(matchArgs))
          /\ execArgs.kind \in {"Test", "TestInit"}
             => (outcome.result <=> ~IsNil(matchArgs))
    /\ (ctorArgs.kind = "New" /\ ctorArgs.input = <<>> /\ IsNil(ctorArgs.baseURL))
       => /\ newError = "NoBaseURLError"
          /\ IsNil(urlPattern)
    /\ (ctorArgs.kind = "New" /\ ctorArgs.input = <<>> /\ ctorArgs.baseURL = Some(exampleBase))
       => /\ ~IsNil(urlPattern)
          /\ Protocol(builtPattern) = sHttps
          /\ Hostname(builtPattern) = <<"h", ".", "c">>
          /\ Port(builtPattern) = <<>>
          /\ Pathname(builtPattern) = <<"/", "a", "/">>
          /\ Search(builtPattern) = <<"*">>
          /\ Hash(builtPattern) = <<"*">>

\* C5: New was called on the empty pattern string without base URL and
\* returned NoBaseURLError.
C5_EmptyStringWithoutBaseFailed ==
    /\ ctorArgs.kind = "New"
    /\ ctorArgs.input = <<>>
    /\ IsNil(ctorArgs.baseURL)
    /\ phase = "failed"
    /\ newError = "NoBaseURLError"

\* C6 (as stated): New("data:foo*") without base URL returns a pattern of
\* protocol "data" and pathname "foo*", on which Exec("data:foobar", "")
\* returns a result.
C6_DataFooStarCompiles ==
    (ctorArgs.kind = "New" /\ ctorArgs.input = dataFooStar /\ IsNil(ctorArgs.baseURL))
    => /\ ~IsNil(urlPattern)
       /\ Protocol(builtPattern) = dataScheme
       /\ Pathname(builtPattern) = <<"f", "o", "o", "*">>
       /\ (execArgs.kind = "Exec" /\ execArgs.input = dataFoobar /\ execArgs.baseURL = <<>>)
          => outcome.kind = "result"

\* C6 (amended): New("data:foo*") without base URL fails with
\* NoBaseURLError, because ":foo" is a Name token and no protocol suffix.
\* With the colon escaped, New("data\\:foo*"), or followed by a code point
\* that begins no name, New("data:/a"), the pattern has protocol "data"
\* and the text after the colon as pathname, compiled with the opaque
\* pathname canonicalizer; on the first, Exec("data:foobar", "") returns a
\* result of which the pathname group "0" is "bar".
C6_EscapedColonEndsScheme ==
    /\ (ctorArgs.kind = "New" /\ ctorArgs.input = dataFooStar /\ IsNil(ctorArgs.baseURL))
       => /\ newError = "NoBaseURLError"
          /\ IsNil(urlPattern)
    /\ (ctorArgs.kind = "New" /\ ctorArgs.input = dataSlashA /\ IsNil(ctorArgs.baseURL))
       => /\ ~IsNil(urlPattern)
          /\ Protocol(builtPattern) = dataScheme
          /\ Pathname(builtPattern) = <<"/", "a">>
    /\ (ctorArgs.kind = "New" /\ ctorArgs.input = dataEscapedFooStar
        /\ IsNil(ctorArgs.baseURL))
       => /\ ~IsNil(urlPattern)
          /\ Protocol(builtPattern) = dataScheme
          /\ Pathname(builtPattern) = <<"f", "o", "o", "*">>
          /\ componentCallback(defaultedOf(initOfCall(ctorArgs)).val, builtPattern, 6)
                 = "canonicalizeOpaquePathname"
          /\ (execArgs.kind = "Exec" /\ execArgs.input = dataFoobar
              /\ execArgs.baseURL = <<>>)
             => /\ outcome.kind = "result"
                /\ outcome.result.pathname
                       = [Input |-> <<"f", "o", "o", "b", "a", "r">>,
                          Groups |-> {<<<<"0">>, <<"b", "a", "r">>>>}]

\* C6: Exec("data:foobar", "") returned a result on the pattern of
\* New("data\\:foo*").
C6_EscapedDataPatternMatched ==
    /\ ctorArgs.kind = "New"
    /\ ctorArgs.input = dataEscapedFooStar
    /\ IsNil(ctorArgs.baseURL)
    /\ execArgs.kind = "Exec"
    /\ execArgs.input = dataFoobar
    /\ execArgs.baseURL = <<>>
    /\ outcome.kind = "result"

\* C7: a constructor call on a pattern with an unmatched '(' or '{'
\* returns an error and no pattern.
C7_UnmatchedOpenIsAnError ==
    callHasUnmatchedOpen(ctorArgs) => constructionFailed

\* C7: New returned a pattern for a pattern string with an unmatched '{'.
C7_PatternBuiltFromUnmatchedOpen ==
    /\ ctorArgs.kind = "New"
    /\ ctorArgs.input = <<"{", "\\">>
    /\ phase = "built"

\* C8: when the processed protocol is a special scheme and the processed
\* port is the default port of that scheme, the pattern that is built has
\* the port "" and the protocol unchanged; New("https://example.com:443/")
\* returns a pattern with Port() "" and Protocol() "https".
C8_DefaultPortIsRemoved ==
    /\ (~IsNil(urlPattern)
        /\ IsSpecialScheme(Get(defaultedOf(initOfCall(ctorArgs)).val.Protocol))
        /\ Get(defaultedOf(initOfCall(ctorArgs)).val.Port)
               = DefaultPorts(Get(defaultedOf(initOfCall(ctorArgs)).val.Protocol)))
       => /\ Port(builtPattern) = <<>>
          /\ Protocol(builtPattern) = Get(defaultedOf(initOfCall(ctorArgs)).val.Protocol)
    /\ (ctorArgs.kind = "New" /\ ctorArgs.input = exampleWithPort)
       => /\ ~IsNil(urlPattern)
          /\ Port(builtPattern) = <<>>
          /\ Protocol(builtPattern) = sHttps

\* C8: New("https://example.com:443/") returned a pattern.
C8_ExampleWithDefaultPortBuilt ==
    /\ ctorArgs.kind = "New"
    /\ ctorArgs.input = exampleWithPort
    /\ phase = "built"
    /\ Port(builtPattern) = <<>>

\* C9: when the strict tokenizer reaches a tokenizing error on one of the
\* eight component strings, the constructor returns an error and no
\* pattern.
C9_TokenizingErrorsPropagate ==
    (ctorArgs.kind \in {"New", "InitNew"}
     /\ someComponentHasTokenizingError(defaultedOf(initOfCall(ctorArgs))))
    => constructionFailed

\* C9: URLPatternInit.New never returned.
C9_ConstructorNeverReturned ==
    /\ ctorArgs.kind = "InitNew"
    /\ phase = "hung"

\* ------------------------------------------------------------------------
\* Properties of parsePatternString
\* ------------------------------------------------------------------------

\* the names of the parts of partList that are not fixed text, in order
namesOfGroups(partList) ==
    [i \in 1..Len(SelectSeq(partList, LAMBDA part : part.pType # "FixedText")) |->
        SelectSeq(partList, LAMBDA part : part.pType # "FixedText")[i].name]

\* the values of the Name tokens of tokenList, in order
valuesOfNameTokens(tokenList) ==
    [i \in 1..Len(SelectSeq(tokenList, LAMBDA t : t.tType = "Name")) |->
        SelectSeq(tokenList, LAMBDA t : t.tType = "Name")[i].value]

isNumbered(name) == name # <<>> /\ IsDigit(name[1])

noRepetition(names) ==
    \A i, j \in 1..Len(names) : i # j => names[i] # names[j]

\* C10: in a part list returned by parsePatternString no two parts other
\* than fixed text have the same name; the names that are numbers are "0",
\* "1", ... in order and the other names are the values of the Name tokens
\* in order; the call fails when two Name tokens have the same value, and
\* DuplicatePartNameError is returned only then.
C10_PartNamesAreUnique ==
    ctorArgs.kind = "parsePatternString"
    => /\ phase = "parsed"
          => /\ noRepetition(namesOfGroups(outcome.result))
             /\ \A i \in 1..Len(SelectSeq(namesOfGroups(outcome.result), isNumbered)) :
                    SelectSeq(namesOfGroups(outcome.result), isNumbered)[i]
                        = FormatFloat(i - 1)
             /\ SelectSeq(namesOfGroups(outcome.result), LAMBDA name : ~isNumbered(name))
                    = valuesOfNameTokens(tokenize(ctorArgs.input, tokenizePolicyStrict).val)
       /\ newError = "DuplicatePartNameError"
          => ~noRepetition(valuesOfNameTokens(
                               tokenize(ctorArgs.input, tokenizePolicyStrict).val))
       /\ ~noRepetition(valuesOfNameTokens(
                            tokenize(ctorArgs.input, tokenizePolicyStrict).val))
          => phase = "failed"

\* C10: parsePatternString returned DuplicatePartNameError.
C10_DuplicateNameRejected ==
    /\ ctorArgs.kind = "parsePatternString"
    /\ phase = "failed"
    /\ newError = "DuplicatePartNameError"

\* ------------------------------------------------------------------------
\* Properties of generatePatternString
\* ------------------------------------------------------------------------

\* parsePatternString on the pattern string g that generatePatternString
\* returned, with the options and the callback of call
reparseOf(g, call) ==
    IF g.err # "" THEN Fail(g.err)
    ELSE parsePatternString(g.val, call.options, call.encodingCallback)

\* parsePatternString on what generatePatternString writes for partList
reparsed(partList, call) ==
    reparseOf(generatePatternString(partList, call.options), call)

\* part lists of the same length with, part by part, the same type,
\* modifier, name, prefix, suffix and value
sameShape(pl, ql) ==
    /\ Len(pl) = Len(ql)
    /\ \A i \in 1..Len(pl) :
           /\ pl[i].pType = ql[i].pType
           /\ pl[i].modifier = ql[i].modifier
           /\ pl[i].name = ql[i].name
           /\ pl[i].prefix = ql[i].prefix
           /\ pl[i].suffix = ql[i].suffix
           /\ pl[i].value = ql[i].value

\* parsePatternString was called with the identity callback and returned
\* a part list
parsedWithIdentity ==
    /\ ctorArgs.kind = "parsePatternString"
    /\ phase = "parsed"
    /\ ctorArgs.call.encodingCallback = "identity"

\* two parts of pl that follow each other are fixed texts without modifier
adjacentFixedTexts(pl) ==
    \E i \in 1..(Len(pl) - 1) :
        /\ pl[i].pType = "FixedText" /\ pl[i].modifier = "None"
        /\ pl[i + 1].pType = "FixedText" /\ pl[i + 1].modifier = "None"

C11_RegeneratedStringDiffers ==
    /\ parsedWithIdentity
    /\ Len(outcome.result) >= 2
    /\ ~adjacentFixedTexts(outcome.result)
    /\ generatePatternString(outcome.result, ctorArgs.call.options).val # ctorArgs.input
    /\ reparsed(outcome.result, ctorArgs.call).err = ""

\* ------------------------------------------------------------------------
\* Properties of the accessors
\* ------------------------------------------------------------------------

httpsHashOfHashes == <<"h", "t", "t", "p", "s", ":", "/", "a", "#", "#", "#", "a">>

dataGroupedPath == <<"d", "a", "t", "a", "\\", ":", "{", "/", "*", "}">>

\* the accessor of the i-th component
accessor(u, i) == u[componentKeys[i]].patternString

\* URLPatternInit.New on the init of which the only field is the i-th
\* component, set to the value of its accessor on u
reconstructed(u, i, options) ==
    InitNew(InitWith(EmptyInit, ComponentNames[i], accessor(u, i)), options)

\* the pattern r was built and its i-th accessor returns what it returns
\* on u
sameAccessor(r, u, i) == r.err = "" /\ accessor(r.val, i) = accessor(u, i)

\* init processing keeps the value of the i-th accessor of u: it removes
\* a ':' at the end of a protocol, a '?' at the start of a search and a
\* '#' at the start of a hash
keptByInitProcessing(u, i) ==
    CASE componentKeys[i] = "protocol" ->
           processProtocolForInit(accessor(u, i), "pattern").val = accessor(u, i)
      [] componentKeys[i] = "search" ->
           processSearchForInit(accessor(u, i), "pattern").val = accessor(u, i)
      [] componentKeys[i] = "hash" ->
           processHashForInit(accessor(u, i), "pattern").val = accessor(u, i)
      [] OTHER -> TRUE

\* the i-th component is compiled with the same callback and options in
\* a pattern of which the protocol is "*": this is so for every component
\* but hostname and pathname, which depend on whether the protocol
\* component matches a special scheme
compiledAsUnderAnyProtocol(u, i) ==
    componentKeys[i] \in {"hostname", "pathname"}
    => protocolComponentMatchesSpecialScheme(u.protocol)

\* New returned a pattern and no call was made on it yet
builtByNew == phase = "built" /\ ctorArgs.kind = "New"

regexpMetacharacters ==
    {"\\", ".", "+", "*", "?", "(", ")", "|", "[", "]", "{", "}", "^", "$", "/"}

\* s with a backslash before every metacharacter, from position i on
RECURSIVE literalFrom(_, _)
literalFrom(s, i) ==
    IF i > Len(s) THEN <<>>
    ELSE (IF s[i] \in regexpMetacharacters THEN <<"\\">> ELSE <<>>)
         \o <<s[i]>> \o literalFrom(s, i + 1)

literal(s) == literalFrom(s, 1)

modifierSymbol(m) ==
    IF m = "Optional" THEN <<"?">>
    ELSE IF m = "ZeroOrMore" THEN <<"*">>
    ELSE IF m = "OneOrMore" THEN <<"+">>
    ELSE <<>>

\* <regex> of the table
tableRegexp(p, options) ==
    IF p.pType = "SegmentWildcard"
    THEN <<"[", "^">> \o literal(<<options.delimiterCodePoint>>) \o <<"]", "+", "?">>
    ELSE IF p.pType = "FullWildcard" THEN <<".", "*">>
    ELSE p.value

\* the row of the table that applies to part p
tableFragment(p, options) ==
    CASE p.pType = "FixedText" /\ p.modifier = "None" -> literal(p.value)
      [] p.pType = "FixedText" ->
           <<"(", "?", ":">> \o literal(p.value) \o <<")">> \o modifierSymbol(p.modifier)
      [] p.prefix = <<>> /\ p.suffix = <<>> /\ p.modifier \in {"None", "Optional"} ->
           <<"(">> \o tableRegexp(p, options) \o <<")">> \o modifierSymbol(p.modifier)
      [] p.prefix = <<>> /\ p.suffix = <<>> ->
           <<"(", "(", "?", ":">> \o tableRegexp(p, options) \o <<")">>
           \o modifierSymbol(p.modifier) \o <<")">>
      [] p.modifier \in {"None", "Optional"} ->
           <<"(", "?", ":">> \o literal(p.prefix) \o <<"(">> \o tableRegexp(p, options)
           \o <<")">> \o literal(p.suffix) \o <<")">> \o modifierSymbol(p.modifier)
      [] OTHER ->
           <<"(", "?", ":">> \o literal(p.prefix) \o <<"(", "(", "?", ":">>
           \o tableRegexp(p, options) \o <<")", "(", "?", ":">> \o literal(p.suffix)
           \o literal(p.prefix) \o <<"(", "?", ":">> \o tableRegexp(p, options)
           \o <<")", ")", "*", ")">> \o literal(p.suffix) \o <<")">>
           \o (IF p.modifier = "ZeroOrMore" THEN <<"?">> ELSE <<>>)

\* the source the table gives for the part list pl
tableSource(pl, options) ==
    (IF options.ignoreCase THEN <<"(", "?", "i", ")">> ELSE <<>>)
    \o <<"\\", "A", "(", "?", ":">>
    \o Concat([i \in 1..Len(pl) |-> tableFragment(pl[i], options)])
    \o <<")", "\\", "z">>

\* options with ignoreCase set to ic
withIgnoreCase(options, ic) == [options EXCEPT !.ignoreCase = ic]

\* C13: for every part list parsePatternString returns, and with or
\* without ignoreCase, the source generateRegularExpressionAndNameList
\* writes is "(?i)" if ignoreCase, then "\A(?:", then for each part the
\* fragment of its row of the table (escaped literal; "(?:lit)mod";
\* "(regex)mod"; "((?:regex)mod)"; "(?:pre(regex)suf)mod";
\* "(?:pre((?:regex)(?:sufpre(?:regex))*)suf)" with "?" for ZeroOrMore),
\* then ")\z", where the regex of a segment wildcard is "[^d]+?" with d the
\* escaped delimiter and that of a full wildcard is ".*".
C13_RegexpSourceFollowsTable ==
    (ctorArgs.kind = "parsePatternString" /\ phase = "parsed")
    => \A ic \in BOOLEAN :
           /\ generateRegularExpressionAndNameList(
                  outcome.result, withIgnoreCase(ctorArgs.call.options, ic)).err = ""
           /\ generateRegularExpressionAndNameList(
                  outcome.result, withIgnoreCase(ctorArgs.call.options, ic)).val.re
                  = tableSource(outcome.result, withIgnoreCase(ctorArgs.call.options, ic))

\* C13: a part list was parsed that holds fixed text with a metacharacter
\* and a segment wildcard with a prefix that repeats zero or more times.
C13_RepeatedPrefixedSegmentParsed ==
    /\ ctorArgs.kind = "parsePatternString"
    /\ phase = "parsed"
    /\ \E i, j \in 1..Len(outcome.result) :
           /\ outcome.result[i].pType = "FixedText"
           /\ outcome.result[i].value = <<"/">>
           /\ outcome.result[j].pType = "SegmentWildcard"
           /\ outcome.result[j].prefix = <<"/">>
           /\ outcome.result[j].modifier = "ZeroOrMore"

\* ------------------------------------------------------------------------
\* Properties of concurrent calls
\* ------------------------------------------------------------------------

\* what call returns on pattern u when it runs alone
aloneResult(u, call) ==
    IF call.kind = "Accessor" THEN accessorResult(u, call.component) ELSE callOn(u, call)

inheritedNames == <<"Protocol", "Hostname", "Port", "Pathname", "Search", "Hash">>

\* the value of the component named f of the parsed URL ur
valueOfUrl(ur, f) ==
    CASE f = "Protocol" -> ur.Scheme
      [] f = "Username" -> ur.Username
      [] f = "Password" -> ur.Password
      [] f = "Hostname" -> ur.Hostname
      [] f = "Port" -> ur.Port
      [] f = "Pathname" -> ur.Pathname
      [] f = "Search" -> ur.Query
      [] OTHER -> ur.Fragment

\* init omits the k-th of inheritedNames and every one before it
omitsUpTo(init, k) == \A j \in 1..k : IsNil(init[inheritedNames[j]])

\* the string from which the component named f is compiled when the
\* processed init, with "*" for what is absent, is defaulted
compiledFrom(defaulted, f) == Get(withoutDefaultPort(defaulted)[f])

\* C15 for the init on which URLPatternInit.New runs and its processed
\* init defaulted
inheritsInOrder(init, defaulted) ==
    /\ \A k \in 1..Len(inheritedNames) :
           IsNil(init[inheritedNames[k]])
           => compiledFrom(defaulted, inheritedNames[k])
                  = IF ~IsNil(init.BaseURL) /\ omitsUpTo(init, k)
                    THEN escapePatternString(
                             valueOfUrl(urlParse(Get(init.BaseURL)).val, inheritedNames[k]))
                    ELSE star
    /\ IsNil(init.Username) => compiledFrom(defaulted, "Username") = star
    /\ IsNil(init.Password) => compiledFrom(defaulted, "Password") = star

\* URLPatternInit.New ran on an init that it could process
initProcessed ==
    /\ ctorArgs.kind \in {"New", "InitNew"}
    /\ newError # "NoBaseURLError"
    /\ defaultedOf(initOfCall(ctorArgs)).err = ""

\* C15: when URLPatternInit.New processes an init, a component among
\* protocol, hostname, port, pathname, search and hash that the init omits
\* is compiled from the pattern-escaped value of the base URL if there is
\* a base URL and the init omits every component before it in this
\* order, and from "*" otherwise; an omitted username or password is
\* compiled from "*" with or without base URL.
C15_BaseURLInheritance ==
    initProcessed
    => inheritsInOrder(initOfCall(ctorArgs).val, defaultedOf(initOfCall(ctorArgs)).val)

\* C15: a pattern was built from the init that holds a port and the base
\* URL https://u:p@h.c:8080/a+/b?q#f: protocol and hostname are those of
\* the base URL, and pathname, search, hash, username and password are "*".
C15_PortWithBaseBuilt ==
    /\ phase = "built"
    /\ ctorArgs.kind = "InitNew"
    /\ ctorArgs.init = InitWith(InitWith(EmptyInit, "BaseURL", fullBase), "Port", <<"*">>)
    /\ Protocol(builtPattern) = sHttps
    /\ Hostname(builtPattern) = <<"h", ".", "c">>
    /\ Pathname(builtPattern) = star
    /\ Username(builtPattern) = star

\* s up to and including its last '/'; "" when it has none
directoryOf(s) ==
    IF \A i \in 1..Len(s) : s[i] # "/" THEN <<>>
    ELSE SubSeq(s, 1, CHOOSE i \in 1..Len(s) :
                          s[i] = "/" /\ \A j \in (i + 1)..Len(s) : s[j] # "/")

\* s begins with pre
beginsWith(s, pre) == Len(s) >= Len(pre) /\ SubSeq(s, 1, Len(pre)) = pre

\* a pathname that begins with '/', or for the processing type "pattern"
\* also with '\/' or '{/'
absolutePathname(s, type) ==
    \/ beginsWith(s, <<"/">>)
    \/ type = "pattern" /\ (beginsWith(s, <<"\\", "/">>) \/ beginsWith(s, <<"{", "/">>))

\* the base URL string of init parses to a URL of which the path is not
\* opaque
hasHierarchicalBase(init) ==
    /\ ~IsNil(init.BaseURL)
    /\ urlParse(Get(init.BaseURL)).err = ""
    /\ ~urlParse(Get(init.BaseURL)).val.OpaquePath

\* the pathname of init after the join of C16; the base URL's pathname is
\* pattern-escaped when the processing type is "pattern", as every string
\* of the base URL is
pathnameAfterJoin(init, type) ==
    IF hasHierarchicalBase(init) /\ ~absolutePathname(Get(init.Pathname), type)
    THEN directoryOf(processBaseURLString(urlParse(Get(init.BaseURL)).val.Pathname, type))
         \o Get(init.Pathname)
    ELSE Get(init.Pathname)

\* C16: when init processing is given a pathname, the pathname it hands
\* to processPathnameForInit is the base URL's pathname up to and
\* including its last '/' followed by the given pathname if there is a
\* base URL of which the path is not opaque and the given pathname is not
\* absolute, and the given pathname in every other case.  In a
\* constructor (type "pattern") this is the pathname that is compiled; in
\* ExecInit and TestInit (type "url") its canonical form is the pathname
\* that is matched.
C16_RelativePathnameIsJoined ==
    /\ (initProcessed /\ ~IsNil(initOfCall(ctorArgs).val.Pathname))
       => Get(defaultedOf(initOfCall(ctorArgs)).val.Pathname)
              = pathnameAfterJoin(initOfCall(ctorArgs).val, "pattern")
    /\ (execArgs.kind \in {"ExecInit", "TestInit"} /\ ~IsNil(matchArgs)
        /\ ~IsNil(execArgs.init.Pathname))
       => Ok(Get(matchArgs).pathname)
              = processPathnameForInit(pathnameAfterJoin(execArgs.init, "url"),
                                       Get(matchArgs).protocol, "url")

\* C16: ExecInit was called with the pathname "{/c", which is absolute in
\* a pattern only, and the base URL https://u:p@h.c:8080/a+/b?q#f, on a
\* pattern built from a relative pathname and a base URL; the pathname
\* matched is "/a+/%7B/c".
C16_JoinedInPatternAndInput ==
    /\ ctorArgs.kind = "InitNew"
    /\ ctorArgs.init = InitWith(InitWith(EmptyInit, "BaseURL", fullBase), "Pathname", <<"*">>)
    /\ ~IsNil(urlPattern)
    /\ Pathname(builtPattern) = <<"/", "a", "\\", "+", "/", "*">>
    /\ execArgs.kind = "ExecInit"
    /\ execArgs.init
           = InitWith(InitWith(EmptyInit, "BaseURL", fullBase), "Pathname", <<"{", "/", "c">>)
    /\ ~IsNil(matchArgs)
    /\ Get(matchArgs).pathname = <<"/", "a", "+", "/", "%", "7", "B", "/", "c">>

\* ------------------------------------------------------------------------
\* Properties of the options of the components
\* ------------------------------------------------------------------------

\* the processed init from which the components of the call args are
\* compiled
compiledInit(args) == withoutDefaultPort(defaultedOf(initOfCall(args)).val)

\* the i-th component of u is what compileComponent returns on the i-th
\* string of processedInit with its callback, the delimiter d and the
\* prefix p, with or without ignoreCase
compiledWith(u, processedInit, i, d, p) ==
    \E ic \in BOOLEAN :
        Ok(u[componentKeys[i]])
            = compileComponent(componentInput(processedInit, i),
                               componentCallback(processedInit, u, i), Options(d, p, ic))

\* every component of u but the pathname is compiled with the code points
\* of C17
othersCompiledAsStated(u, processedInit) ==
    \A i \in 1..Len(componentKeys) :
        CASE componentKeys[i] = "pathname" -> TRUE
          [] componentKeys[i] = "hostname" -> compiledWith(u, processedInit, i, ".", NUL)
          [] OTHER -> compiledWith(u, processedInit, i, NUL, NUL)

\* C17 (as stated): in every pattern a constructor returns the pathname
\* is compiled with the delimiter '/' and the prefix '/' whatever the
\* protocol is, the hostname with the delimiter '.' and no prefix, and
\* every other component with neither.
C17_PathnameOptionsUnderAnyProtocol ==
    phase = "built"
    => /\ compiledWith(builtPattern, compiledInit(ctorArgs), 6, "/", "/")
       /\ othersCompiledAsStated(builtPattern, compiledInit(ctorArgs))

\* C17 (amended): the pathname is compiled with the delimiter '/' and the
\* prefix '/' when the protocol component matches a special scheme, and
\* with neither when it matches none; the hostname is compiled with the
\* delimiter '.' and no prefix, and every other component with neither.
C17_PathnameOptionsFollowProtocol ==
    phase = "built"
    => /\ IF protocolComponentMatchesSpecialScheme(builtPattern.protocol)
          THEN compiledWith(builtPattern, compiledInit(ctorArgs), 6, "/", "/")
          ELSE compiledWith(builtPattern, compiledInit(ctorArgs), 6, NUL, NUL)
       /\ othersCompiledAsStated(builtPattern, compiledInit(ctorArgs))

\* C17: a pattern was built from the protocol "data" and the pathname
\* "/:n", of which the pathname is not what the delimiter and prefix '/'
\* give.
C17_OpaquePathnameBuilt ==
    /\ phase = "built"
    /\ ctorArgs.kind = "InitNew"
    /\ ctorArgs.init
           = InitWith(InitWith(EmptyInit, "Protocol", dataScheme), "Pathname", <<"/", ":", "n">>)
    /\ ~compiledWith(builtPattern, compiledInit(ctorArgs), 6, "/", "/")
    /\ compiledWith(builtPattern, compiledInit(ctorArgs), 6, NUL, NUL)

\* the foldCase flags of the literals of a compiled regular expression
RECURSIVE foldCaseOf(_)
foldCaseOf(node) ==
    CASE node[1] = "lit" -> {node[3]}
      [] node[1] = "cat" -> UNION {foldCaseOf(node[2][i]) : i \in 1..Len(node[2])}
      [] node[1] = "alt" -> foldCaseOf(node[2]) \cup foldCaseOf(node[3])
      [] node[1] = "rep" -> foldCaseOf(node[4])
      [] node[1] = "cap" -> foldCaseOf(node[3])
      [] OTHER -> {}

\* the components IgnoreCase reaches
caseFoldedKeys == {"pathname", "search", "hash"}

groupsOmitted(ex) ==
    \/ Len(ex) = 1
    \/ (Len(ex) = 2 /\ ex[1] = <<>> /\ ex[2] = <<>>)

\* groups holds for every name of names, and for nothing else, the
\* submatch of the capture group of the same position
groupsByPosition(groups, names, ex) ==
    /\ Len(names) = Len(ex) - 1
    /\ groups = {<<names[i], ex[i + 1]>> : i \in 1..Len(names)}
    /\ \A i, j \in 1..Len(names) : names[i] = names[j] => i = j

\* r is the component result C19 states for the component c that matched
\* input with the submatches ex
componentResultAsStated(c, input, ex, r) ==
    /\ Len(ex) = c.regularExpression.numSubexp + 1
    /\ r.Input = input
    /\ (r.Groups = {}) = groupsOmitted(ex)
    /\ ~groupsOmitted(ex) => groupsByPosition(r.Groups, c.groupNameList, ex)

\* C19: whenever Exec or ExecInit returns a result, for every component
\* Input is the string match ran the component's expression on, Groups is
\* omitted exactly when the expression has no capture group or has one
\* capture group that is empty in an empty match, and otherwise Groups
\* maps every name of the group name list to the submatch of the capture
\* group of the same position.
C19_ComponentResultFollowsSubmatches ==
    (execArgs.kind \in {"Exec", "ExecInit"} /\ outcome.kind = "result")
    => \A i \in 1..Len(componentKeys) :
           componentResultAsStated(
               builtPattern[componentKeys[i]], Get(matchArgs)[componentKeys[i]],
               Get(FindStringSubmatch(builtPattern[componentKeys[i]].regularExpression,
                                      Get(matchArgs)[componentKeys[i]])),
               outcome.result[componentKeys[i]])

\* C19: Exec returned a result of which the protocol has no capture
\* group and no Groups, the pathname has the Groups {n: "a"}, and the
\* username has one capture group, empty in an empty match, and no
\* Groups.
C19_GroupsKeptAndOmitted ==
    /\ execArgs.kind = "Exec"
    /\ outcome.kind = "result"
    /\ builtPattern.protocol.regularExpression.numSubexp = 0
    /\ outcome.result.protocol = [Input |-> <<"h", "t", "t", "p", "s">>, Groups |-> {}]
    /\ outcome.result.pathname = [Input |-> <<"/", "a">>, Groups |-> {<<<<"n">>, <<"a">>>>}]
    /\ builtPattern.username.regularExpression.numSubexp = 1
    /\ outcome.result.username = [Input |-> <<>>, Groups |-> {}]

\* ------------------------------------------------------------------------
\* Properties of the tokenizer
\* ------------------------------------------------------------------------

\* the number of code points of the input a token stands for
tokenSpan(tok) ==
    CASE tok.tType = "End" -> 0
      [] tok.tType = "Name" -> Len(tok.value) + 1
      [] tok.tType = "Regexp" -> Len(tok.value) + 2
      [] tok.tType = "EscapedChar" -> 2
      [] OTHER -> 1

\* the text of the token tok is in input from the offset tok.index on
tokenBeginsAt(input, tok) ==
    /\ tok.index + tokenSpan(tok) <= Len(input)
    /\ CASE tok.tType = "End" -> tok.value = <<>>
         [] tok.tType = "Name" ->
              /\ At(input, tok.index) = ":"
              /\ tok.value = Slice(input, tok.index + 1, tok.index + tokenSpan(tok))
         [] tok.tType = "Regexp" ->
              /\ At(input, tok.index) = "("
              /\ tok.value = Slice(input, tok.index + 1, tok.index + tokenSpan(tok) - 1)
              /\ At(input, tok.index + tokenSpan(tok) - 1) = ")"
         [] tok.tType = "EscapedChar" ->
              /\ At(input, tok.index) = "\\"
              /\ tok.value = <<At(input, tok.index + 1)>>
         [] OTHER -> tok.value = <<At(input, tok.index)>>

\* the token list tl of input as C20 states it
tokenListAsStated(input, tl) ==
    /\ tl # <<>>
    /\ tl[Len(tl)].tType = "End"
    /\ tl[Len(tl)].index = Len(input)
    /\ \A i \in 1..(Len(tl) - 1) : tl[i].tType # "End"
    /\ tl[1].index = 0
    /\ \A i \in 1..Len(tl) : tokenBeginsAt(input, tl[i])
    /\ \A i \in 1..(Len(tl) - 1) :
           /\ tl[i].index < tl[i + 1].index
           /\ tl[i + 1].index = tl[i].index + tokenSpan(tl[i])

\* C20: whenever tokenize returns without error, under either policy, the
\* token list is non-empty, its last token is End at the length of the
\* input, no earlier token is End, every token's index is the offset at
\* which the token begins in the input, and the indices are strictly
\* increasing.
C20_TokenListEndsWithEnd ==
    phase = "tokenized" => tokenListAsStated(ctorArgs.input, outcome.result)

\* C20: the lenient tokenize of "*\" returned a nil error and a token
\* list without any token.
C20_NoTokenAfterTrailingBackslash ==
    /\ phase = "tokenized"
    /\ ctorArgs.policy = tokenizePolicyLenient
    /\ ctorArgs.input = <<"*", "\\">>
    /\ newError = ""
    /\ outcome.result = <<>>

\* the scan r of the regexp group that starts at regexpStart met one of
\* the errors of a group, is unbalanced, or has no contents
regexpGroupError(r, regexpStart) ==
    r.error \/ r.depth # 0 \/ r.regexpPosition - regexpStart - 1 = 0

\* the code point of input at the offset index, where a token starts, is
\* one of the tokenizer errors of C21
tokenizerErrorAt(input, index) ==
    CASE At(input, index) = "\\" -> index = Len(input) - 1
      [] At(input, index) = ":" -> scanName(input, index + 1, index + 1) <= index + 1
      [] At(input, index) = "(" ->
           regexpGroupError(scanRegexp(input, index + 1, index + 1, 1), index + 1)
      [] OTHER -> FALSE

\* the offsets of the tokenizer errors of input from the offset index on,
\* the tokenizer resuming one code point after an error and after the
\* token otherwise
RECURSIVE errorOffsets(_, _)
errorOffsets(input, index) ==
    IF ~(index < Len(input)) THEN {}
    ELSE IF tokenizerErrorAt(input, index)
    THEN {index} \cup errorOffsets(input, index + 1)
    ELSE errorOffsets(input, tokenizeStep(input, tokenizePolicyLenient, index, <<>>).index)

\* the InvalidChar tokens of tl are those of the offsets in errors, each
\* of the one code point at its offset
invalidCharsAt(input, tl, errors) ==
    /\ {tl[i].index : i \in {j \in 1..Len(tl) : tl[j].tType = "InvalidChar"}} = errors
    /\ \A i \in 1..Len(tl) :
           tl[i].tType = "InvalidChar"
           => /\ tl[i].value = <<At(input, tl[i].index)>>
              /\ i < Len(tl)
              /\ tl[i + 1].index = tl[i].index + 1

\* C21: on an input with a tokenizer error the strict tokenize returns a
\* tokenize error (and returns a token list on an input without one); the
\* lenient tokenize never returns an error, and its token list has one
\* InvalidChar token for each offending code point, at its offset, the
\* next token starting at the next code point.
C21_TokenizerErrorPolicy ==
    ctorArgs.kind = "tokenize"
    => IF ctorArgs.policy = tokenizePolicyStrict
       THEN IF errorOffsets(ctorArgs.input, 0) # {}
            THEN phase = "failed" /\ newError = "TypeError"
            ELSE phase = "tokenized"
       ELSE /\ phase = "tokenized"
            /\ invalidCharsAt(ctorArgs.input, outcome.result, errorOffsets(ctorArgs.input, 0))

\* C21: the strict tokenize of "*\" never returned.
C21_StrictTrailingBackslashHung ==
    /\ ctorArgs.kind = "tokenize"
    /\ ctorArgs.policy = tokenizePolicyStrict
    /\ ctorArgs.input = <<"*", "\\">>
    /\ errorOffsets(ctorArgs.input, 0) = {1}
    /\ phase = "hung"

\* ------------------------------------------------------------------------
\* Properties of the processing of an init
\* ------------------------------------------------------------------------

\* what C22 states for the value v of a component of which the delimiter
\* is d and the canonicalizer canonical: v without one leading d, and for
\* the type "url" its canonical form
processedAsStated(v, d, iType, canonical(_)) ==
    IF iType = "pattern" THEN Ok(TrimPrefix(v, d)) ELSE canonical(TrimPrefix(v, d))

\* the processed components protocol, search and hash are what C22 states
\* for those that init sets
delimitersRemoved(init, iType, protocol, search, hash) ==
    /\ ~IsNil(init.Protocol)
       => Ok(protocol) = processedAsStated(Get(init.Protocol), ":", iType, canonicalizeProtocol)
    /\ ~IsNil(init.Search)
       => Ok(search) = processedAsStated(Get(init.Search), "?", iType, canonicalizeSearch)
    /\ ~IsNil(init.Hash)
       => Ok(hash) = processedAsStated(Get(init.Hash), "#", iType, canonicalizeHash)

\* the init that URLPatternInit.New processed with the type "pattern"
processedOfCall(args) == process(args.init, "pattern", EmptyInit).val

\* C22: the processing of an init removes one leading ':' from the
\* protocol, one leading '?' from the search and one leading '#' from the
\* hash; with the type "pattern" (URLPatternInit.New) the stripped string
\* is the processed component, with the type "url" (ExecInit, TestInit)
\* the canonical form of the stripped string is.
C22_DelimiterRemovedThenCanonicalized ==
    /\ (phase = "built" /\ ctorArgs.kind = "InitNew")
       => delimitersRemoved(ctorArgs.init, "pattern",
                            Get(processedOfCall(ctorArgs).Protocol),
                            Get(processedOfCall(ctorArgs).Search),
                            Get(processedOfCall(ctorArgs).Hash))
    /\ (phase = "matched" /\ execArgs.kind \in {"ExecInit", "TestInit"} /\ ~IsNil(matchArgs))
       => delimitersRemoved(execArgs.init, "url", Get(matchArgs).protocol,
                            Get(matchArgs).search, Get(matchArgs).hash)

\* C22: ExecInit ran match on the hash "#a" for an init of which the hash
\* is "#a".
C22_HashOfUrlKeptItsDelimiter ==
    /\ phase = "matched"
    /\ execArgs.kind = "ExecInit"
    /\ execArgs.init = InitWith(EmptyInit, "Hash", <<"#", "a">>)
    /\ ~IsNil(matchArgs)
    /\ Get(matchArgs).hash = <<"#", "a">>
    /\ canonicalizeHash(<<"a">>) = Ok(<<"a">>)

\* ------------------------------------------------------------------------
\* Properties of Test and TestInit
\* ------------------------------------------------------------------------

\* the outcome of a call of Test or TestInit is true
returnedTrue == outcome = [kind |-> "bool", result |-> TRUE]

\* C23: on every compiled pattern and every input, Test returned true
\* exactly when Exec returns a result for the same input and base URL, and
\* TestInit returned true exactly when ExecInit returns a result for the
\* same init.
C23_TestIffExecReturnsResult ==
    /\ execArgs.kind = "Test"
       => returnedTrue
              = (Exec(builtPattern, execArgs.input, execArgs.baseURL).kind = "result")
    /\ execArgs.kind = "TestInit"
       => returnedTrue = (ExecInit(builtPattern, execArgs.init).kind = "result")

\* C23: Test returned true for an input with a base URL, for which Exec
\* returns a result.
C23_TestReturnedTrue ==
    /\ execArgs.kind = "Test"
    /\ execArgs.baseURL # <<>>
    /\ returnedTrue
    /\ Exec(builtPattern, execArgs.input, execArgs.baseURL).kind = "result"

\* ------------------------------------------------------------------------
\* Termination of the constructors
\* ------------------------------------------------------------------------

\* every iteration of the loop of tokenize from the offset index on
\* returns or goes on at a greater offset; st is how the iteration at
\* index ends
RECURSIVE everyIterationAdvances(_, _, _)
iterationAdvances(input, policy, index, st) ==
    \/ st.kind = "return"
    \/ /\ st.kind = "next"
       /\ st.index > index
       /\ everyIterationAdvances(input, policy, st.index)

everyIterationAdvances(input, policy, index) ==
    \/ ~(index < Len(input))
    \/ iterationAdvances(input, policy, index, tokenizeStep(input, policy, index, <<>>))

\* the strict tokenize advances on the eight component strings that
\* URLPatternInit.New compiles
componentTokenizersAdvance(defaulted) ==
    defaulted.err = ""
    => \A i \in 1..Len(ComponentNames) :
           everyIterationAdvances(componentInput(withoutDefaultPort(defaulted.val), i),
                                  tokenizePolicyStrict, 0)

\* C24: construction terminates: New and URLPatternInit.New return a
\* pattern or an error on every input, every iteration of the lenient
\* tokenize of the constructor string and of the strict tokenize of the
\* component strings returning or advancing the tokenizer index.
C24_ConstructionTerminates ==
    /\ phase # "hung"
    /\ ctorArgs.kind = "New" => everyIterationAdvances(ctorArgs.input, tokenizePolicyLenient, 0)
    /\ ctorArgs.kind \in {"New", "InitNew"}
       => componentTokenizersAdvance(defaultedOf(initOfCall(ctorArgs)))

\* C24: URLPatternInit.New never returned, for the pathname "\": an
\* iteration of the strict tokenize of this component neither returns nor
\* advances.
C24_StrictTokenizeStaysAtBackslash ==
    /\ ctorArgs.kind = "InitNew"
    /\ ctorArgs.init = InitWith(EmptyInit, "Pathname", <<"\\">>)
    /\ phase = "hung"
    /\ ~componentTokenizersAdvance(defaultedOf(initOfCall(ctorArgs)))

\* ------------------------------------------------------------------------
\* Properties of the constructor string parser
\* ------------------------------------------------------------------------

\* the parser of the call of parseConstructorString
parser == outcome.result

\* C25: in every state of parseConstructorString on the token list of
\* the lenient tokenizer, tokenIndex is an index of the token list
\* whenever the loop reads a token, also after a change of state that
\* skips 1 or 3 tokens, componentStart is at most tokenIndex, groupDepth
\* is not negative, and the case of the state Done, which panics, is
\* never executed.
C25_ParserStaysInsideTokenList ==
    /\ newError # "panic"
    /\ phase \in {"parsing", "returned"}
       => /\ 0 <= parser.componentStart
          /\ parser.componentStart <= parser.tokenIndex
          /\ parser.groupDepth >= 0
    /\ phase = "parsing"
       => /\ parser.tokenIndex < Len(parser.tokenList)
          /\ parser.state # "Done"

\* C25: the loop goes on after the protocol state skipped the three
\* tokens of "://", at the End token, inside the token list.
C25_ThreeTokensSkippedToEnd ==
    /\ phase = "parsing"
    /\ ctorArgs.input = <<"a", ":", "/", "/">>
    /\ parser.state = "Authority"
    /\ parser.tokenIndex = 4
    /\ parser.componentStart = 4
    /\ At(parser.tokenList, parser.tokenIndex).tType = "End"

\* the kinds of token of a non-special pattern char
charKinds == {"Char", "EscapedChar", "InvalidChar"}

\* the characters of which the test takes the parser from the state s to
\* the state t
delimitersOf(s, t) ==
    CASE t \in {"Protocol", "Authority", "Password", "Port"} -> {":"}
      [] t = "Username" -> {"@"}
      [] t = "Hostname" -> IF s = "Authority" THEN {"/", "?", "#"} ELSE {"@"}
      [] t = "Pathname" -> IF s = "Protocol" THEN {":"} ELSE {"/"}
      [] t = "Search" -> {"?"}
      [] t = "Hash" -> {"#"}
      [] OTHER -> {}

\* the offset in the token list of the token the iteration on p tests:
\* the current token, and at the End token, in the state Init, the token
\* the parser is rewound to
testedIndex(p) ==
    IF At(p.tokenList, p.tokenIndex).tType = "End" THEN p.componentStart ELSE p.tokenIndex

\* the iteration from p to q changes the state after a delimiter test:
\* at the End token only the state Init tests one, for search and hash
changedStateOnTest(p, q) ==
    /\ q.state # p.state
    /\ At(p.tokenList, p.tokenIndex).tType = "End"
       => (p.state = "Init" /\ q.state \in {"Search", "Hash"})

\* the token tok is a non-special pattern char of a value in chars
nonSpecialCharOf(tok, chars) ==
    /\ tok.tType \in charKinds
    /\ \E c \in chars : tok.value = <<c>>

\* the token at index of the token list tl has the value "?" and is the
\* first token or follows a token that is no Name, Regexp, Close or
\* Asterisk
questionMarkAfterText(tl, index) ==
    /\ At(tl, index).value = <<"?">>
    /\ index - 1 < 0 \/ At(tl, index - 1).tType \notin {"Name", "Regexp", "Close", "Asterisk"}

\* the iteration from the parser p to the parser q changed the IPv6
\* bracket depth only on a non-special '[' or ']'
bracketsOnTest(p, q) ==
    q.hostnameIPv6BracketDepth # p.hostnameIPv6BracketDepth
    => nonSpecialCharOf(At(p.tokenList, p.tokenIndex), {"[", "]"})

\* an iteration of the loop was made and the parser is still there
iterated == phase = "parsing" /\ phase' \in {"parsing", "returned"}

\* C26 (as stated): every iteration that changes the state of the
\* constructor string parser on a delimiter test, or the IPv6 bracket
\* depth, tested a token of kind Char, EscapedChar or InvalidChar that
\* has the character of the test as value; a token of another kind
\* changes nothing.
C26_DelimitersAreNonSpecialChars ==
    [][iterated
       => /\ bracketsOnTest(parser, parser')
          /\ changedStateOnTest(parser, parser')
             => nonSpecialCharOf(At(parser.tokenList, testedIndex(parser)),
                                 delimitersOf(parser.state, parser'.state))]_vars

\* C26 (amended): the same for every delimiter test but the search
\* prefix: for the character '?' the tested token is a non-special
\* pattern char, or a token of any kind of value "?" (the tokenizer makes
\* every unescaped '?' an OtherModifier) that is the first token or
\* follows a token that is no Name, Regexp, Close or Asterisk.
C26_SearchPrefixMayBeAModifier ==
    [][iterated
       => /\ bracketsOnTest(parser, parser')
          /\ changedStateOnTest(parser, parser')
             => \/ nonSpecialCharOf(At(parser.tokenList, testedIndex(parser)),
                                    delimitersOf(parser.state, parser'.state))
                \/ /\ "?" \in delimitersOf(parser.state, parser'.state)
                   /\ questionMarkAfterText(parser.tokenList, testedIndex(parser))]_vars

\* C26: the parser is in the state Search of "a?a", which it entered on
\* the OtherModifier token "?".
C26_SearchEnteredOnModifier ==
    /\ phase = "parsing"
    /\ ctorArgs.input = <<"a", "?", "a">>
    /\ parser.state = "Search"
    /\ parser.componentStart = 2
    /\ At(parser.tokenList, 1) = Token("OtherModifier", 1, <<"?">>)

\* the iteration from the parser p to the parser q called changeState: the
\* state changed, and not by rewindAndSetState (from Init to Protocol, and
\* from Authority)
changedState(p, q) ==
    /\ q.state # p.state
    /\ ~(p.state = "Init" /\ q.state = "Protocol")
    /\ p.state # "Authority"

\* the offset of the current token when changeState is called on p: the
\* parser is rewound before at the End token in the state Init
currentIndex(p) ==
    IF At(p.tokenList, p.tokenIndex).tType = "End" /\ p.state = "Init"
    THEN p.componentStart ELSE p.tokenIndex

\* the input of p from the input index of the component-start token up
\* to the input index of the token at the offset index
componentString(p, index) ==
    Slice(p.input, At(p.tokenList, p.componentStart).index, At(p.tokenList, index).index)

\* result with the component of the state that is left set to v
leftComponentStored(result, left, v) ==
    IF left \in {"Init", "Authority"} THEN result ELSE InitWith(result, left, v)

\* result with the empty hostname C27 states
hostnameDefaulted(result, left, entered) ==
    IF /\ left \in {"Protocol", "Authority", "Username", "Password"}
       /\ entered \in {"Port", "Pathname", "Search", "Hash"}
       /\ IsNil(result.Hostname)
    THEN InitWith(result, "Hostname", <<>>)
    ELSE result

\* result with the pathname C27 states, when a state of leftStates is
\* left
pathnameDefaulted(result, left, entered, special, leftStates) ==
    IF left \in leftStates /\ entered \in {"Search", "Hash"} /\ IsNil(result.Pathname)
    THEN InitWith(result, "Pathname", IF special THEN <<"/">> ELSE <<>>)
    ELSE result

\* result with the empty search C27 states
searchDefaulted(result, entered) ==
    IF entered = "Hash" /\ IsNil(result.Search) THEN InitWith(result, "Search", <<>>) ELSE result

\* the result of the parser after changeState left the state left for
\* the state entered, stored being the result with the stored component
resultAfterChange(stored, left, entered, special, leftStates) ==
    IF left = "Init" \/ entered = "Done" THEN stored
    ELSE searchDefaulted(
             pathnameDefaulted(hostnameDefaulted(stored, left, entered),
                               left, entered, special, leftStates),
             entered)

\* the init returned for the result of the parser: the port is empty when
\* the hostname is set and the port is not
portDefaulted(result) ==
    IF ~IsNil(result.Hostname) /\ IsNil(result.Port) THEN InitWith(result, "Port", <<>>)
    ELSE result

\* the postcondition of C27 on the iteration from p to q, the pathname
\* being defaulted when a state of leftStates is left
changeStatePostcondition(p, q, leftStates) ==
    IF changedState(p, q)
    THEN q.result
             = resultAfterChange(
                   leftComponentStored(p.result, p.state, componentString(p, currentIndex(p))),
                   p.state, q.state, q.protocolMatchesASpecialScheme, leftStates)
    ELSE q.result = p.result

\* the states of the parser
parserStates ==
    {"Init", "Protocol", "Authority", "Username", "Password", "Hostname", "Port", "Pathname",
     "Search", "Hash", "Done"}

\* C27 (as stated): a change of state stores the input from the
\* component start up to the current token as the component of the state
\* that is left (nothing for Init and Authority); it sets the hostname to
\* "" when port, pathname, search or hash is entered from protocol,
\* authority, username or password without hostname, the pathname to "/"
\* (special scheme) or "" when search or hash is entered without
\* pathname, the search to "" when hash is entered without search, and no
\* default when Init is left or Done is entered; the returned init has
\* the port "" added exactly when the hostname is set and the port is not.
C27_ChangeStatePostcondition ==
    [][iterated
       => /\ changeStatePostcondition(parser, parser', parserStates)
          /\ phase' = "returned" => outcome'.init = Some(portDefaulted(parser'.result))]_vars

\* C27 (amended): the same, the pathname being defaulted only when
\* search or hash is entered from protocol, authority, username,
\* password, hostname or port: it stays absent when hash is entered from
\* a search that was entered from Init.
C27_PathnameDefaultedBeforePathname ==
    [][iterated
       => /\ changeStatePostcondition(
                 parser, parser',
                 {"Protocol", "Authority", "Username", "Password", "Hostname", "Port"})
          /\ phase' = "returned" => outcome'.init = Some(portDefaulted(parser'.result))]_vars

\* C27: the parser entered the state Hash of "?a#" from the state Search,
\* with the search "a" and without pathname.
C27_HashEnteredWithoutPathname ==
    /\ phase = "parsing"
    /\ ctorArgs.input = <<"?", "a", "#">>
    /\ parser.state = "Hash"
    /\ parser.result = InitWith(EmptyInit, "Search", <<"a">>)

\* the token the iteration on p begins with
currentToken(p) == At(p.tokenList, p.tokenIndex)

\* the iteration from p to q went to the next token and left the state,
\* the component start, the IPv6 bracket depth and the result as they were
tokenSkipped(p, q) ==
    /\ q.tokenIndex = p.tokenIndex + 1
    /\ q.state = p.state
    /\ q.componentStart = p.componentStart
    /\ q.hostnameIPv6BracketDepth = p.hostnameIPv6BracketDepth
    /\ q.protocolMatchesASpecialScheme = p.protocolMatchesASpecialScheme
    /\ q.result = p.result

\* C28: while the group depth is greater than zero, the iteration on a
\* token other than Open, Close and End skips the token and changes
\* neither the state, the component start, the IPv6 bracket depth, the
\* result nor the group depth; the iterations on the Open and on the
\* Close of a group change none of them but the group depth, so that no
\* component ends or starts inside a group.
C28_TokensInsideGroupsAreSkipped ==
    [][iterated
       => /\ (parser.groupDepth > 0 /\ currentToken(parser).tType \notin {"Open", "Close", "End"})
             => (tokenSkipped(parser, parser') /\ parser'.groupDepth = parser.groupDepth)
          /\ currentToken(parser).tType = "Open"
             => (tokenSkipped(parser, parser') /\ parser'.groupDepth = parser.groupDepth + 1)
          /\ (parser.groupDepth > 0 /\ currentToken(parser).tType = "Close")
             => (tokenSkipped(parser, parser') /\ parser'.groupDepth = parser.groupDepth - 1)]_vars

\* C28: in the state Protocol of "{:}:" the parser is after the ':' of
\* the group, which it skipped, the component start being the '{'.
C28_ColonInsideGroupSkipped ==
    /\ phase = "parsing"
    /\ ctorArgs.input = <<"{", ":", "}", ":">>
    /\ parser.state = "Protocol"
    /\ parser.groupDepth = 1
    /\ parser.componentStart = 0
    /\ parser.tokenIndex = 2
    /\ At(parser.tokenList, 1).value = <<":">>
    /\ At(parser.tokenList, 1).tType \in charKinds

\* the token of tl at the offset index is a non-special pattern char c
nonSpecialCharAt(tl, index, c) ==
    /\ index < Len(tl)
    /\ nonSpecialCharOf(At(tl, index), {c})

\* the iteration on p is on a non-special ':' in the state Protocol,
\* outside of every group
protocolSuffixSeen(p) ==
    /\ p.state = "Protocol"
    /\ p.groupDepth = 0
    /\ nonSpecialCharAt(p.tokenList, p.tokenIndex, ":")

\* the regular expression of the component c matches a special scheme
matchesASpecialScheme(c) ==
    \E scheme \in {<<"h", "t", "t", "p">>, <<"h", "t", "t", "p", "s">>, <<"w", "s">>,
                    <<"w", "s", "s">>, <<"f", "t", "p">>} :
        ~IsNil(FindStringSubmatch(c.regularExpression, scheme))

\* the state C29 enters after the protocol of p, special or not
stateAfterProtocol(p, special) ==
    IF /\ nonSpecialCharAt(p.tokenList, p.tokenIndex + 1, "/")
       /\ nonSpecialCharAt(p.tokenList, p.tokenIndex + 2, "/")
    THEN [state |-> "Authority", skip |-> 3]
    ELSE IF special THEN [state |-> "Authority", skip |-> 1]
    ELSE [state |-> "Pathname", skip |-> 1]

\* the parser q is p after the protocol state entered next, with the
\* protocol stored without its ':'
protocolLeft(p, q, special, next) ==
    /\ q.protocolMatchesASpecialScheme = special
    /\ q.state = next.state
    /\ q.tokenIndex = p.tokenIndex + next.skip
    /\ q.componentStart = p.tokenIndex + next.skip
    /\ q.result.Protocol = Some(componentString(p, p.tokenIndex))

\* the iteration on p, of which the protocol compiles as c, ends as C29
\* states
protocolTransition(p, c) ==
    IF c.err # ""
    THEN phase' = "failed" /\ newError' = c.err
    ELSE /\ phase' \in {"parsing", "returned"}
         /\ protocolLeft(p, parser', matchesASpecialScheme(c.val),
                         stateAfterProtocol(p, matchesASpecialScheme(c.val)))

\* C29: on a non-special ':' in the state Protocol the text since the
\* component start is compiled as a protocol pattern; when this fails
\* parsing ends with that error; otherwise protocolMatchesASpecialScheme
\* is set exactly when the regular expression matches a special scheme,
\* the protocol stored is that text, without the ':', and the parser
\* enters Authority after 3 tokens when the next two tokens are
\* non-special '/', else Authority after 1 token when the protocol
\* matches a special scheme, else Pathname after 1 token.
C29_ProtocolStateTransition ==
    [][(phase = "parsing" /\ protocolSuffixSeen(parser))
       => protocolTransition(
              parser,
              compileComponent(componentString(parser, parser.tokenIndex),
                               "canonicalizeProtocol", Options(NUL, NUL, FALSE)))]_vars

\* C29: after the protocol "https" of "https:/" the parser is in the
\* state Authority, one token after the ':', with the flag set.
C29_SpecialProtocolEntersAuthority ==
    /\ phase = "parsing"
    /\ ctorArgs.input = <<"h", "t", "t", "p", "s", ":", "/">>
    /\ parser.state = "Authority"
    /\ parser.protocolMatchesASpecialScheme
    /\ parser.tokenIndex = 6
    /\ parser.componentStart = 6
    /\ parser.result.Protocol = Some(<<"h", "t", "t", "p", "s">>)

\* the errors of the assertions of the pattern parser and of the
\* generation of the regular expression and of the pattern string
AssertionErrors ==
    {"BadParserIndexError", "NonEmptySuffixError", "EmptyPartNameError",
     "InvalidModifierError", "InvalidPrefixOrSuffix", "InvalidPartNameError"}

\* every fixed-text part of pl has an empty name, prefix and suffix and
\* every other part has a name
partsAsAsserted(pl) ==
    \A i \in 1..Len(pl) :
        IF pl[i].pType = "FixedText"
        THEN pl[i].name = <<>> /\ pl[i].prefix = <<>> /\ pl[i].suffix = <<>>
        ELSE pl[i].name # <<>>

\* C30: compileComponent returns none of the assertion errors:
\* parsePatternString returns none of them, every fixed-text part of the
\* part list it returns has an empty name, prefix and suffix, every other
\* part has a name, and the rest of compileComponent on this part list
\* returns none of them either.
C30_AssertionErrorsUnreachable ==
    /\ phase = "failed" => newError \notin AssertionErrors
    /\ phase = "parsed" =>
           /\ partsAsAsserted(outcome.result)
           /\ compileParts(Ok(outcome.result), ctorArgs.call.options).err
                  \notin AssertionErrors

\* C30: "{a}?", a group without name and regexp that has a modifier, was
\* parsed into one optional fixed-text part, with an empty suffix.
C30_BraceGroupWithoutName ==
    /\ phase = "parsed"
    /\ ctorArgs.input = <<"{", "a", "}", "?">>
    /\ outcome.result = <<Part("FixedText", <<"a">>, "Optional", <<>>, <<>>, <<>>)>>

====
